---- MODULE Spec2Model ----
(***************************************************************************)
(* Boreal language front-end: nested symbol table, the lexer's identifier  *)
(* action coupled to it, the SLR(1) shift/reduce driver and the semantic   *)
(* actions bound to the grammar productions.                               *)
(*                                                                         *)
(* Objects of the program are records held in one variable each            *)
(* (symbolTable, lexer, parser, semanticActions); Symbol objects live in   *)
(* `heap` and are referred to by their index, as the code shares them by   *)
(* reference between the scopes' maps, the tokens and the attribute stack. *)
(* Text is a sequence of character codes.                                  *)
(***************************************************************************)
EXTENDS Integers, Sequences, FiniteSets, TLC

VARIABLES
  symbolTable,      \* SymbolTable: globalScope, currentScope, scopeStack, scopes
  heap,             \* the Symbol objects created so far
  lexer,            \* Lexer: position, line, column, declarationZone, errors, ...
  parser,           \* Parser: stateStack, semanticStack, errors, token, pc
  semanticActions,  \* SemanticActions: declaration zone, displacements, errors
  source,           \* lexemes of the input not yet read, in order
  free,             \* number of further, unconstrained lexemes the input may hold
  call,             \* last direct call on the symbol table and what it returned
  slrData           \* what core_data/SLR_data.csv holds: the SLR(1) table of the
                    \* grammar ("grammar") or any cells at all ("arbitrary")

vars == <<symbolTable, heap, lexer, parser, semanticActions, source, free, call, slrData>>

----------------------------------------------------------------------------
\* Bounds of the model.

\* Unconstrained lexemes an input may hold after its fixed part.
MaxFree == 9
\* Scope objects a direct caller of the symbol table may create.
MaxScopes == 2
\* Symbol objects a direct caller of the symbol table may create.
MaxSymbols == 3
\* Unconstrained lexemes after a fixed, non-empty beginning of an input.
MaxTail == 3
\* Longest stack the parser may build from a table with arbitrary cells.
MaxStack == 7
\* Longest of the short texts given to the lexer alone.
MaxLen == 4
\* Lexical errors after which a client of the lexer alone stops calling it.
MaxErrors == 2
\* Greatest character code of the one-character texts given to the lexer alone.
MaxCharCode == 255
\* Most exit statements in a row in the body of an analysed loop.
MaxExits == 3
\* Most programs, procedures and functions in an analysed translation unit.
MaxUnits == 3

----------------------------------------------------------------------------
\* JavaScript values.

\* `undefined` in a string-valued field.
Undef == "undefined"
\* `undefined` in a number-valued field (every number the code stores is >= 0).
NoNum == -1
\* `undefined` in a Symbol-valued field; Symbol references are heap indices >= 1.
NoSymbol == 0
\* `undefined` in a field holding a space-joined list of words.
NoWords == <<Undef>>
\* `undefined` in a text-valued field (text is a sequence of character codes).
NoText == <<-1>>

\* x || 0 for a number-valued field.
OrZero(x) == IF x = NoNum THEN 0 ELSE x
\* !x for a number-valued field: undefined and 0 are falsy.
Falsy(x) == x = NoNum \/ x = 0
\* a || b for number-valued fields.
OrElse(a, b) == IF Falsy(a) THEN b ELSE a

\* String.prototype.toLowerCase / toUpperCase on ASCII text.
toLowerCase(s) == [i \in DOMAIN s |-> IF s[i] >= 65 /\ s[i] <= 90 THEN s[i] + 32 ELSE s[i]]
toUpperCase(s) == [i \in DOMAIN s |-> IF s[i] >= 97 /\ s[i] <= 122 THEN s[i] - 32 ELSE s[i]]

\* Map.prototype.set.
MapSet(m, k, v) == [x \in DOMAIN m \cup {k} |-> IF x = k THEN v ELSE m[x]]

\* "global" and "local", the scope names the code uses besides symbol names.
GlobalName == <<103, 108, 111, 98, 97, 108>>
LocalName == <<108, 111, 99, 97, 108>>

----------------------------------------------------------------------------
\* Symbol table.

NewScope(scopeName, parentScope) ==
  [name |-> scopeName, parent |-> parentScope, symbols |-> <<>>, children |-> <<>>]

\* new SymbolTable(): one global scope, which is current and alone on the stack.
\* Scope objects are indices into `scopes`; 0 is "no parent".
SymbolTableInit ==
  [globalScope |-> 1, currentScope |-> 1, scopeStack |-> <<1>>,
   scopes |-> <<NewScope(GlobalName, 0)>>]

\* reset(): a fresh global scope replaces everything the table referred to.
reset(st) == SymbolTableInit

enterScope(st, scopeName) ==
  LET newScope == Len(st.scopes) + 1
      linked == [st.scopes EXCEPT ![st.currentScope].children = Append(@, newScope)]
  IN [st EXCEPT !.scopes = Append(linked, NewScope(scopeName, st.currentScope)),
                !.currentScope = newScope,
                !.scopeStack = Append(st.scopeStack, newScope)]

exitScope_Unguarded(st) ==
  LET popped == SubSeq(st.scopeStack, 1, Len(st.scopeStack) - 1)
  IN [st EXCEPT !.scopeStack = popped,
                !.currentScope = IF popped = <<>> THEN 0 ELSE popped[Len(popped)]]

exitScope(st) ==
  IF Len(st.scopeStack) > 1
  THEN LET popped == SubSeq(st.scopeStack, 1, Len(st.scopeStack) - 1)
       IN [st EXCEPT !.scopeStack = popped, !.currentScope = popped[Len(popped)]]
  ELSE st

getCurrentScopeName(st) == st.scopes[st.currentScope].name

define_CaseSensitive(st, hp, symbol) ==
  LET key == hp[symbol].name
  IN IF key \in DOMAIN st.scopes[st.currentScope].symbols
     THEN [symbolTable |-> st, returned |-> FALSE]
     ELSE [symbolTable |-> [st EXCEPT !.scopes[st.currentScope].symbols =
                                        MapSet(@, key, symbol)],
           returned |-> TRUE]

\* define(symbol): the table after the call and the value it returns.
define(st, hp, symbol) ==
  LET key == toLowerCase(hp[symbol].name)
  IN IF key \in DOMAIN st.scopes[st.currentScope].symbols
     THEN [symbolTable |-> st, returned |-> FALSE]
     ELSE [symbolTable |-> [st EXCEPT !.scopes[st.currentScope].symbols =
                                        MapSet(@, key, symbol)],
           returned |-> TRUE]

lookupFrom_TopOnly(st, lowerName, i) ==
  IF i < 1 THEN NoSymbol
  ELSE IF lowerName \in DOMAIN st.scopes[st.scopeStack[i]].symbols
       THEN st.scopes[st.scopeStack[i]].symbols[lowerName]
       ELSE NoSymbol

\* lookup(name): walk the scope stack from its top to its bottom.
RECURSIVE lookupFrom(_, _, _)
lookupFrom(st, lowerName, i) ==
  IF i < 1 THEN NoSymbol
  ELSE IF lowerName \in DOMAIN st.scopes[st.scopeStack[i]].symbols
       THEN st.scopes[st.scopeStack[i]].symbols[lowerName]
       ELSE lookupFrom(st, lowerName, i - 1)

\* Every scope ever created, newest first, whether or not it has been exited.
RECURSIVE lookupInScopes(_, _, _)
lookupInScopes(st, lowerName, i) ==
  IF i < 1 THEN NoSymbol
  ELSE IF lowerName \in DOMAIN st.scopes[i].symbols
       THEN st.scopes[i].symbols[lowerName]
       ELSE lookupInScopes(st, lowerName, i - 1)

lookup_ExitedScopes(st, name) == lookupInScopes(st, toLowerCase(name), Len(st.scopes))

lookup(st, name) == lookupFrom(st, toLowerCase(name), Len(st.scopeStack))

lookupInCurrentScope_CaseSensitive(st, name) ==
  IF name \in DOMAIN st.scopes[st.currentScope].symbols
  THEN st.scopes[st.currentScope].symbols[name]
  ELSE NoSymbol

lookupInCurrentScope(st, name) ==
  IF toLowerCase(name) \in DOMAIN st.scopes[st.currentScope].symbols
  THEN st.scopes[st.currentScope].symbols[toLowerCase(name)]
  ELSE NoSymbol

NewSymbol_AsVariable(symName, original, scopeName, pos, ln, col, len) ==
  [name |-> symName, originalLexeme |-> original, kind |-> "VARIABLE",
   scope |-> scopeName, dataType |-> Undef, offset |-> NoNum,
   parameters |-> <<>>, returnType |-> Undef, byReference |-> Undef,
   label |-> NoText, position |-> pos, line |-> ln, column |-> col, length |-> len]

\* A Symbol object as the lexer creates it; unset optional fields are undefined.
NewSymbol(symName, original, scopeName, pos, ln, col, len) ==
  [name |-> symName, originalLexeme |-> original, kind |-> "UNKNOWN",
   scope |-> scopeName, dataType |-> Undef, offset |-> NoNum,
   parameters |-> <<>>, returnType |-> Undef, byReference |-> Undef,
   label |-> NoText, position |-> pos, line |-> ln, column |-> col, length |-> len]

----------------------------------------------------------------------------
\* Tokens and the lexer.

NullToken ==
  [type |-> "null", lexeme |-> <<>>, line |-> NoNum, column |-> NoNum,
   position |-> NoNum, symbol |-> NoSymbol]

Token(tokenType, text, ln, col, pos, sym) ==
  [type |-> tokenType, lexeme |-> text, line |-> ln, column |-> col,
   position |-> pos, symbol |-> sym]

LexicalError(msg, text, ln, col, pos, len) ==
  [message |-> msg, lexeme |-> text, line |-> ln, column |-> col,
   position |-> pos, length |-> len]

\* new Lexer(input, symbolTable), after the constructor's first read().
\* position is the 0-based index of the current character, whose code is
\* currentCharCode (-1 past the end); no stop point is armed.
LexerInit(input) ==
  [input |-> input, position |-> 0, line |-> 1, column |-> 0,
   currentCharCode |-> IF Len(input) > 0 THEN input[1] ELSE -1,
   declarationZone |-> FALSE, errors |-> <<>>, lexeme |-> <<>>, numValue |-> 0,
   stringCount |-> 0, idCount |-> 0, outOfBounds |-> FALSE,
   stopAtLine |-> NoNum, stopAtColumn |-> NoNum, lastToken |-> NullToken]

setDeclarationZone(lx, isDeclarationZone) ==
  [lx EXCEPT !.declarationZone = isDeclarationZone]

setStopAt(lx, line, column) == [lx EXCEPT !.stopAtLine = line, !.stopAtColumn = column]

\* ocExclude: for each state but 0, the columns that are not folded into
\* "other character" (column 20).
ocExclude ==
  [state \in 1..12 |->
     CASE state = 1 -> {8}
       [] state = 2 -> {15, 19, 3, 21}
       [] state = 3 -> {0, 1}
       [] state = 4 -> {1}
       [] state = 5 -> {6}
       [] state = 6 -> {14, 19, 3, 21}
       [] state = 7 -> {10, 8}
       [] state = 8 -> {8}
       [] state = 9 -> {21}
       [] state = 10 -> {3}
       [] state = 11 -> {21}
       [] state = 12 -> {3}]

\* buildTransitionMatrix: transitionMatrix[state + 1][column + 1] is <<next state,
\* action>>; every cell of the 13 x 22 matrix is filled.
transitionMatrix ==
  <<
     << <<3, "A0_3">>, <<4, "A0_4">>, <<0, "Read">>, <<9, "EOL">>, <<888, "A0_100">>,
        <<888, "A0_101">>, <<5, "Read">>, <<888, "A0_102">>, <<888, "A0_103">>,
        <<7, "Read">>, <<1, "Read">>, <<888, "A0_104">>, <<888, "A0_105">>, <<6, "Read">>,
        <<888, "ELEX0_ILLEGAL_COMMENT_CLOSE">>, <<2, "A0_2">>, <<888, "A0_106">>,
        <<8, "Read">>, <<888, "A0_107">>, <<888, "A0_108">>, <<888, "ELEX0_ERROR_OC">>,
        <<10, "EOL">> >>,
     << <<888, "A1_12">>, <<888, "A1_12">>, <<888, "A1_12">>, <<888, "A1_12">>,
        <<888, "A1_12">>, <<888, "A1_12">>, <<888, "A1_12">>, <<888, "A1_12">>,
        <<888, "A1_11">>, <<888, "A1_12">>, <<888, "A1_12">>, <<888, "A1_12">>,
        <<888, "A1_12">>, <<888, "A1_12">>, <<888, "A1_12">>, <<888, "A1_12">>,
        <<888, "A1_12">>, <<888, "A1_12">>, <<888, "A1_12">>, <<888, "A1_12">>,
        <<888, "A1_12">>, <<888, "A1_12">> >>,
     << <<2, "A2_2">>, <<2, "A2_2">>, <<2, "A2_2">>, <<0, "ELEX2_ERROR_LINE_BREAK">>,
        <<2, "A2_2">>, <<2, "A2_2">>, <<2, "A2_2">>, <<2, "A2_2">>, <<2, "A2_2">>,
        <<2, "A2_2">>, <<2, "A2_2">>, <<2, "A2_2">>, <<2, "A2_2">>, <<2, "A2_2">>,
        <<2, "A2_2">>, <<888, "A2_21">>, <<2, "A2_2">>, <<2, "A2_2">>, <<2, "A2_2">>,
        <<888, "ELEX2_ERROR_INCOMPLETE_STRING">>, <<2, "A2_2">>,
        <<0, "ELEX2_ERROR_LINE_BREAK">> >>,
     << <<3, "A3_3">>, <<3, "A3_3">>, <<888, "A3_31">>, <<888, "A3_31">>, <<888, "A3_31">>,
        <<888, "A3_31">>, <<888, "A3_31">>, <<888, "A3_31">>, <<888, "A3_31">>,
        <<888, "A3_31">>, <<888, "A3_31">>, <<888, "A3_31">>, <<888, "A3_31">>,
        <<888, "A3_31">>, <<888, "A3_31">>, <<888, "A3_31">>, <<888, "A3_31">>,
        <<888, "A3_31">>, <<888, "A3_31">>, <<888, "A3_31">>, <<888, "A3_31">>,
        <<888, "A3_31">> >>,
     << <<888, "A4_41">>, <<4, "A4_4">>, <<888, "A4_41">>, <<888, "A4_41">>,
        <<888, "A4_41">>, <<888, "A4_41">>, <<888, "A4_41">>, <<888, "A4_41">>,
        <<888, "A4_41">>, <<888, "A4_41">>, <<888, "A4_41">>, <<888, "A4_41">>,
        <<888, "A4_41">>, <<888, "A4_41">>, <<888, "A4_41">>, <<888, "A4_41">>,
        <<888, "A4_41">>, <<888, "A4_41">>, <<888, "A4_41">>, <<888, "A4_41">>,
        <<888, "A4_41">>, <<888, "A4_41">> >>,
     << <<888, "A5_52">>, <<888, "A5_52">>, <<888, "A5_52">>, <<888, "A5_52">>,
        <<888, "A5_52">>, <<888, "A5_52">>, <<888, "A5_51">>, <<888, "A5_52">>,
        <<888, "A5_52">>, <<888, "A5_52">>, <<888, "A5_52">>, <<888, "A5_52">>,
        <<888, "A5_52">>, <<888, "A5_52">>, <<888, "A5_52">>, <<888, "A5_52">>,
        <<888, "A5_52">>, <<888, "A5_52">>, <<888, "A5_52">>, <<888, "A5_52">>,
        <<888, "A5_52">>, <<888, "A5_52">> >>,
     << <<6, "Read">>, <<6, "Read">>, <<6, "Read">>, <<11, "EOL">>, <<6, "Read">>,
        <<6, "Read">>, <<6, "Read">>, <<6, "Read">>, <<6, "Read">>, <<6, "Read">>,
        <<6, "Read">>, <<6, "Read">>, <<6, "Read">>, <<6, "Read">>, <<0, "Read">>,
        <<6, "Read">>, <<6, "Read">>, <<6, "Read">>, <<6, "Read">>,
        <<888, "ELEX6_ERROR_UNCLOSED_COMMENT">>, <<6, "Read">>, <<12, "EOL">> >>,
     << <<888, "A7_71">>, <<888, "A7_71">>, <<888, "A7_71">>, <<888, "A7_71">>,
        <<888, "A7_71">>, <<888, "A7_71">>, <<888, "A7_71">>, <<888, "A7_71">>,
        <<888, "A7_73">>, <<888, "A7_71">>, <<888, "A7_72">>, <<888, "A7_71">>,
        <<888, "A7_71">>, <<888, "A7_71">>, <<888, "A7_71">>, <<888, "A7_71">>,
        <<888, "A7_71">>, <<888, "A7_71">>, <<888, "A7_71">>, <<888, "A7_71">>,
        <<888, "A7_71">>, <<888, "A7_71">> >>,
     << <<888, "A8_81">>, <<888, "A8_81">>, <<888, "A8_81">>, <<888, "A8_81">>,
        <<888, "A8_81">>, <<888, "A8_81">>, <<888, "A8_81">>, <<888, "A8_81">>,
        <<888, "A8_82">>, <<888, "A8_81">>, <<888, "A8_81">>, <<888, "A8_81">>,
        <<888, "A8_81">>, <<888, "A8_81">>, <<888, "A8_81">>, <<888, "A8_81">>,
        <<888, "A8_81">>, <<888, "A8_81">>, <<888, "A8_81">>, <<888, "A8_81">>,
        <<888, "A8_81">>, <<888, "A8_81">> >>,
     << <<0, "None">>, <<0, "None">>, <<0, "None">>, <<0, "None">>, <<0, "None">>,
        <<0, "None">>, <<0, "None">>, <<0, "None">>, <<0, "None">>, <<0, "None">>,
        <<0, "None">>, <<0, "None">>, <<0, "None">>, <<0, "None">>, <<0, "None">>,
        <<0, "None">>, <<0, "None">>, <<0, "None">>, <<0, "None">>, <<0, "None">>,
        <<0, "None">>, <<0, "Read">> >>,
     << <<0, "None">>, <<0, "None">>, <<0, "None">>, <<0, "Read">>, <<0, "None">>,
        <<0, "None">>, <<0, "None">>, <<0, "None">>, <<0, "None">>, <<0, "None">>,
        <<0, "None">>, <<0, "None">>, <<0, "None">>, <<0, "None">>, <<0, "None">>,
        <<0, "None">>, <<0, "None">>, <<0, "None">>, <<0, "None">>, <<0, "None">>,
        <<0, "None">>, <<0, "None">> >>,
     << <<6, "None">>, <<6, "None">>, <<6, "None">>, <<6, "None">>, <<6, "None">>,
        <<6, "None">>, <<6, "None">>, <<6, "None">>, <<6, "None">>, <<6, "None">>,
        <<6, "None">>, <<6, "None">>, <<6, "None">>, <<6, "None">>, <<6, "None">>,
        <<6, "None">>, <<6, "None">>, <<6, "None">>, <<6, "None">>, <<6, "None">>,
        <<6, "None">>, <<6, "Read">> >>,
     << <<6, "None">>, <<6, "None">>, <<6, "None">>, <<6, "Read">>, <<6, "None">>,
        <<6, "None">>, <<6, "None">>, <<6, "None">>, <<6, "None">>, <<6, "None">>,
        <<6, "None">>, <<6, "None">>, <<6, "None">>, <<6, "None">>, <<6, "None">>,
        <<6, "None">>, <<6, "None">>, <<6, "None">>, <<6, "None">>, <<6, "None">>,
        <<6, "None">>, <<6, "None">> >>
  >>

\* read(): the next character of the input, -1 past its end.
read(lx) ==
  [lx EXCEPT !.position = @ + 1, !.column = @ + 1,
             !.currentCharCode = IF lx.position + 1 >= Len(lx.input) THEN -1
                                 ELSE lx.input[lx.position + 2]]

\* The reserved words: lower-cased text |-> token type.
keywords ==
  <<112,114,111,103,114,97,109>> :> "PROGRAM" @@
  <<105,110,116,101,103,101,114>> :> "INTEGER" @@
  <<98,111,111,108,101,97,110>> :> "BOOLEAN" @@
  <<115,116,114,105,110,103>> :> "STRING" @@
  <<119,114,105,116,101>> :> "WRITE" @@
  <<119,114,105,116,101,108,110>> :> "WRITELN" @@
  <<114,101,97,100>> :> "READ" @@
  <<102,117,110,99,116,105,111,110>> :> "FUNCTION" @@
  <<112,114,111,99,101,100,117,114,101>> :> "PROCEDURE" @@
  <<114,101,116,117,114,110>> :> "RETURN" @@
  <<98,101,103,105,110>> :> "BEGIN" @@
  <<101,110,100>> :> "END" @@
  <<105,102>> :> "IF" @@
  <<116,104,101,110>> :> "THEN" @@
  <<101,108,115,101>> :> "ELSE" @@
  <<100,111>> :> "DO" @@
  <<119,104,105,108,101>> :> "WHILE" @@
  <<114,101,112,101,97,116>> :> "REPEAT" @@
  <<117,110,116,105,108>> :> "UNTIL" @@
  <<108,111,111,112>> :> "LOOP" @@
  <<102,111,114>> :> "FOR" @@
  <<99,97,115,101>> :> "CASE" @@
  <<111,102>> :> "OF" @@
  <<111,116,104,101,114,119,105,115,101>> :> "OTHERWISE" @@
  <<118,97,114>> :> "VAR" @@
  <<119,104,101,110>> :> "WHEN" @@
  <<116,114,117,101>> :> "TRUE" @@
  <<102,97,108,115,101>> :> "FALSE" @@
  <<101,120,105,116>> :> "EXIT" @@
  <<97,110,100>> :> "AND" @@
  <<111,114>> :> "OR" @@
  <<120,111,114>> :> "XOR" @@
  <<105,110>> :> "IN" @@
  <<109,111,100>> :> "MOD" @@
  <<110,111,116>> :> "NOT" @@
  <<109,97,120>> :> "MAX" @@
  <<109,105,110>> :> "MIN" @@
  <<116,111>> :> "TO"

IsLetter(c) == (c >= 65 /\ c <= 90) \/ (c >= 97 /\ c <= 122)
IsDigit(c) == c >= 48 /\ c <= 57

\* getColumnIndex: the column of the matrix for a character in a state.
\* getColumnIndex with a column of its own, past the last one, for "other character".
getColumnIndex_OtherPastLast(state, charCode) ==
  LET column == CASE IsLetter(charCode) -> 0
                  [] IsDigit(charCode) -> 1
                  [] charCode = 9 \/ charCode = 32 -> 2
                  [] charCode = 10 -> 3
                  [] charCode = 43 -> 4
                  [] charCode = 45 -> 5
                  [] charCode = 42 -> 6
                  [] charCode = 47 -> 7
                  [] charCode = 61 -> 8
                  [] charCode = 60 -> 9
                  [] charCode = 62 -> 10
                  [] charCode = 40 -> 11
                  [] charCode = 41 -> 12
                  [] charCode = 123 -> 13
                  [] charCode = 125 -> 14
                  [] charCode = 39 -> 15
                  [] charCode = 59 -> 16
                  [] charCode = 58 -> 17
                  [] charCode = 44 -> 18
                  [] charCode < 0 -> 19
                  [] charCode = 13 -> 21
                  [] OTHER -> 22
  IN IF state = 0 /\ column # 22 THEN column
     ELSE IF state \in DOMAIN ocExclude /\ column \notin ocExclude[state] THEN 22
     ELSE column

getColumnIndex(state, charCode) ==
  LET column == CASE IsLetter(charCode) -> 0
                  [] IsDigit(charCode) -> 1
                  [] charCode = 9 \/ charCode = 32 -> 2
                  [] charCode = 10 -> 3
                  [] charCode = 43 -> 4
                  [] charCode = 45 -> 5
                  [] charCode = 42 -> 6
                  [] charCode = 47 -> 7
                  [] charCode = 61 -> 8
                  [] charCode = 60 -> 9
                  [] charCode = 62 -> 10
                  [] charCode = 40 -> 11
                  [] charCode = 41 -> 12
                  [] charCode = 123 -> 13
                  [] charCode = 125 -> 14
                  [] charCode = 39 -> 15
                  [] charCode = 59 -> 16
                  [] charCode = 58 -> 17
                  [] charCode = 44 -> 18
                  [] charCode < 0 -> 19
                  [] charCode = 13 -> 21
                  [] OTHER -> 20
  IN IF state = 0 /\ column # 20 THEN column
     ELSE IF state \in DOMAIN ocExclude /\ column \notin ocExclude[state] THEN 20
     ELSE column

MaxIdLength_OneLess == 32 - 1
\* Longest identifier the lexer accepts.
MaxIdLength == 32
\* Integer literals must stay below 2^15.
MaxInt == 32768

\* Longest string literal the lexer accepts is one character shorter.
MaxStringCount == 64

\* The actions that only return a token:
\* action |-> <<token type, lexeme, whether the action reads a character>>.
punctuation ==
  "A1_11" :> <<"GREATER_EQUAL", <<62, 61>>, TRUE>> @@
  "A1_12" :> <<"GREATER_THAN", <<62>>, FALSE>> @@
  "A5_51" :> <<"POWER", <<94>>, TRUE>> @@
  "A5_52" :> <<"MULTIPLY", <<42>>, FALSE>> @@
  "A7_71" :> <<"LESS_THAN", <<60>>, FALSE>> @@
  "A7_72" :> <<"NOT_EQUAL", <<60, 62>>, TRUE>> @@
  "A7_73" :> <<"LESS_EQUAL", <<60, 61>>, TRUE>> @@
  "A8_81" :> <<"COLON", <<58>>, FALSE>> @@
  "A8_82" :> <<"ASSIGN", <<58, 61>>, TRUE>> @@
  "A0_100" :> <<"PLUS", <<43>>, TRUE>> @@
  "A0_101" :> <<"MINUS", <<45>>, TRUE>> @@
  "A0_102" :> <<"DIVIDE", <<47>>, TRUE>> @@
  "A0_103" :> <<"EQUAL", <<61>>, TRUE>> @@
  "A0_104" :> <<"LPAREN", <<40>>, TRUE>> @@
  "A0_105" :> <<"RPAREN", <<41>>, TRUE>> @@
  "A0_106" :> <<"SEMICOLON", <<59>>, TRUE>> @@
  "A0_107" :> <<"COMMA", <<44>>, TRUE>>

\* Result of one lexer call: the objects it may have changed and its token.
LexResult(lx, st, hp, tok) == [lexer |-> lx, symbolTable |-> st, heap |-> hp, token |-> tok]

\* A3_31, the end of an identifier: lx.lexeme and lx.idCount hold the text
\* accumulated by A0_3/A3_3; the token starts at (startLine, startColumn,
\* startPosition).
A3_31(lx, st, hp, startLine, startColumn, startPosition) ==
  IF lx.idCount <= MaxIdLength
  THEN LET upperLexeme == toUpperCase(lx.lexeme)
           lowerLexeme == toLowerCase(lx.lexeme)
       IN IF lowerLexeme \in DOMAIN keywords
          THEN LexResult(lx, st, hp,
                 Token(keywords[lowerLexeme], lx.lexeme, startLine, startColumn,
                       startPosition, NoSymbol))
          ELSE IF lx.declarationZone
          THEN IF lookupInCurrentScope(st, upperLexeme) # NoSymbol
               THEN LexResult(
                      [lx EXCEPT !.errors = Append(@,
                         LexicalError("already declared in current scope", lx.lexeme,
                                      startLine, startColumn, startPosition, lx.idCount))],
                      st, hp, NullToken)
               ELSE LET newSymbol == Len(hp) + 1
                        hp2 == Append(hp, NewSymbol(upperLexeme, lx.lexeme,
                                   getCurrentScopeName(st), startPosition,
                                   startLine, startColumn, lx.idCount))
                    IN LexResult(lx, define(st, hp2, newSymbol).symbolTable, hp2,
                         Token("IDENTIFIER", lx.lexeme, startLine, startColumn,
                               startPosition, newSymbol))
          ELSE LET symbol == lookup(st, upperLexeme)
               IN IF symbol = NoSymbol
                  THEN LexResult(
                         [lx EXCEPT !.errors = Append(@,
                            LexicalError("not declared", lx.lexeme,
                                         startLine, startColumn, startPosition, lx.idCount))],
                         st, hp, NullToken)
                  ELSE LexResult(lx, st, hp,
                         Token("IDENTIFIER", lx.lexeme, startLine, startColumn,
                               startPosition, symbol))
  ELSE LexResult(
         [lx EXCEPT !.errors = Append(@,
            LexicalError("Identifier exceeds maximum length", lx.lexeme,
                         startLine, startColumn, startPosition, lx.idCount))],
         st, hp, NullToken)

\* Number.prototype.toString and parseInt(text, 10) on non-negative integers.
RECURSIVE numberToString(_)
numberToString(n) ==
  IF n < 10 THEN <<48 + n>> ELSE Append(numberToString(n \div 10), 48 + (n % 10))

RECURSIVE parseInt(_)
parseInt(text) ==
  IF Len(text) = 0 THEN 0
  ELSE parseInt(SubSeq(text, 1, Len(text) - 1)) * 10 + (text[Len(text)] - 48)

\* A4_41 without its reset of outOfBounds.
A4_41_KeepsFlag(lx, st, hp, startLine, startColumn, startPosition) ==
  IF lx.numValue < MaxInt /\ ~lx.outOfBounds
  THEN LexResult(lx, st, hp,
         Token("INTEGER_LITERAL", numberToString(lx.numValue), startLine,
               startColumn, startPosition, NoSymbol))
  ELSE LexResult(
         [lx EXCEPT !.errors = Append(@,
            LexicalError("Integer exceeds maximum value", numberToString(lx.numValue),
                         startLine, startColumn, startPosition,
                         Len(numberToString(lx.numValue))))],
         st, hp, NullToken)

\* A4_41, the end of an integer literal.
A4_41(lx, st, hp, startLine, startColumn, startPosition) ==
  IF lx.numValue < MaxInt /\ ~lx.outOfBounds
  THEN LexResult([lx EXCEPT !.outOfBounds = FALSE], st, hp,
         Token("INTEGER_LITERAL", numberToString(lx.numValue), startLine,
               startColumn, startPosition, NoSymbol))
  ELSE LexResult(
         [lx EXCEPT !.outOfBounds = FALSE,
                    !.errors = Append(@,
            LexicalError("Integer exceeds maximum value", numberToString(lx.numValue),
                         startLine, startColumn, startPosition,
                         Len(numberToString(lx.numValue))))],
         st, hp, NullToken)

\* The loop of getNextTokenInternal from `state` on: one transition of the
\* automaton and its action, until an action returns.  The token starts where
\* the automaton left state 0.  Consecutive iterations that stay in one state
\* with one of the actions Read, A2_2 and A3_3 are taken together: `run` is
\* the characters they consume.  The arguments are values when the body is
\* evaluated: lx, st, hp, state and the start of the token.
RECURSIVE automaton(_, _, _, _, _, _, _)
automaton(theLexer, theTable, theHeap, theState, theLine, theColumn, thePosition) ==
  CHOOSE returned \in {
    LET column == getColumnIndex(state, lx.currentCharCode)
        hasTransition == /\ state + 1 \in DOMAIN transitionMatrix
                         /\ column + 1 \in DOMAIN transitionMatrix[state + 1]
        transition == transitionMatrix[state + 1][column + 1]
        next == transition[1]
        action == transition[2]
        left == state = 0 /\ next # 0
        ln == IF left THEN lx.line ELSE startLine
        col == IF left THEN lx.column ELSE startColumn
        pos == IF left THEN lx.position ELSE startPosition
        token(l, type, text) == LexResult(l, st, hp, Token(type, text, ln, col, pos, NoSymbol))
        error(l, msg, text, len) ==
          LexResult([l EXCEPT !.errors = Append(@, LexicalError(msg, text, ln, col, pos, len))],
                    st, hp, NullToken)
        same(i) == /\ i <= Len(lx.input)
                   /\ transitionMatrix[state + 1][getColumnIndex(state, lx.input[i]) + 1]
                        = transition
        last == CHOOSE j \in (lx.position + 1)..Len(lx.input) :
                  /\ \A i \in (lx.position + 1)..j : same(i)
                  /\ ~same(j + 1)
        run == SubSeq(lx.input, lx.position + 1, last)
        afterRun == [lx EXCEPT !.position = last, !.column = @ + Len(run),
                               !.currentCharCode = IF last >= Len(lx.input) THEN -1
                                                   ELSE lx.input[last + 1]]
    IN IF state = 888 THEN LexResult(lx, st, hp, NullToken)
       ELSE IF ~hasTransition
       THEN LexResult(read([lx EXCEPT !.errors = Append(@,
                        LexicalError("Internal error: No transition", <<>>, lx.line,
                                     lx.column, lx.position, 1))]),
                      st, hp, NullToken)
       ELSE CASE action = "Read" /\ next = state -> automaton(afterRun, st, hp, next, ln, col, pos)
              [] action = "A2_2" /\ next = state ->
                   automaton([afterRun EXCEPT !.lexeme = @ \o run,
                                              !.stringCount = @ + Len(run)],
                             st, hp, next, ln, col, pos)
              [] action = "A3_3" /\ next = state ->
                   automaton([afterRun EXCEPT !.lexeme = @ \o run,
                                              !.idCount = @ + Len(run)],
                             st, hp, next, ln, col, pos)
              [] action = "Read" -> automaton(read(lx), st, hp, next, ln, col, pos)
              [] action = "EOL" ->
                   automaton([read(lx) EXCEPT !.line = @ + 1, !.column = 0],
                             st, hp, next, ln, col, pos)
              [] action = "None" -> automaton(lx, st, hp, next, ln, col, pos)
              [] action \in DOMAIN punctuation ->
                   token(IF punctuation[action][3] THEN read(lx) ELSE lx,
                         punctuation[action][1], punctuation[action][2])
              [] action = "A0_2" ->
                   automaton(read([lx EXCEPT !.stringCount = 0]), st, hp, next, ln, col, pos)
              [] action = "A2_2" ->
                   automaton(read([lx EXCEPT !.lexeme = Append(@, lx.currentCharCode),
                                             !.stringCount = @ + 1]),
                             st, hp, next, ln, col, pos)
              [] action = "A2_21" ->
                   IF lx.stringCount < MaxStringCount
                   THEN token(read(lx), "STRING_LITERAL", lx.lexeme)
                   ELSE error(read(lx), "String exceeds maximum length of 64 characters",
                              lx.lexeme, lx.stringCount + 2)
              [] action = "A0_3" ->
                   automaton([read([lx EXCEPT !.lexeme = <<lx.currentCharCode>>])
                                EXCEPT !.idCount = 1],
                             st, hp, next, ln, col, pos)
              [] action = "A3_3" ->
                   automaton(read([lx EXCEPT !.lexeme = Append(@, lx.currentCharCode),
                                             !.idCount = @ + 1]),
                             st, hp, next, ln, col, pos)
              [] action = "A3_31" -> A3_31(lx, st, hp, ln, col, pos)
              [] action = "A0_4" ->
                   automaton(read([lx EXCEPT !.numValue = lx.currentCharCode - 48]),
                             st, hp, next, ln, col, pos)
              [] action = "A4_4" ->
                   LET numValue == lx.numValue * 10 + (lx.currentCharCode - 48)
                   IN automaton(read([lx EXCEPT !.numValue = numValue,
                                       !.outOfBounds = IF numValue > MaxInt THEN TRUE ELSE @]),
                                st, hp, next, ln, col, pos)
              [] action = "A4_41" -> A4_41(lx, st, hp, ln, col, pos)
              [] action = "A0_108" ->
                   LexResult(lx, st, hp,
                             Token("EOF", <<>>, lx.line, lx.column, lx.position, NoSymbol))
              [] action = "ELEX0_ERROR_OC" ->
                   error(read(lx), "Unexpected character", <<lx.currentCharCode>>, 1)
              [] action = "ELEX0_ILLEGAL_COMMENT_CLOSE" ->
                   error(lx, "Illegal comment close", <<>>, 1)
              [] action = "ELEX2_ERROR_LINE_BREAK" ->
                   error(read(lx), "Unterminated string: line break not allowed",
                         lx.lexeme, Len(lx.lexeme) + 1)
              [] action = "ELEX2_ERROR_INCOMPLETE_STRING" ->
                   error(lx, "Unterminated string: EOF reached", lx.lexeme,
                         Len(lx.lexeme) + 1)
              [] action = "ELEX6_ERROR_UNCLOSED_COMMENT" ->
                   error(lx, "Unclosed comment: EOF reached", <<>>, 1)
              [] OTHER -> LexResult(lx, st, hp, NullToken)
    : lx \in {theLexer}, st \in {theTable}, hp \in {theHeap}, state \in {theState},
      startLine \in {theLine}, startColumn \in {theColumn},
      startPosition \in {thePosition} } : TRUE

getNextTokenInternal(lx, st, hp) ==
  automaton([lx EXCEPT !.lexeme = <<>>], st, hp, 0, lx.line, lx.column, lx.position)

\* getNextToken, but withholding a token that ends exactly at the stop column.
getNextToken_AtStop(lx, st, hp) ==
  CHOOSE returned \in {
    LET scanned == [r.lexer EXCEPT !.lastToken = r.token]
        stopped == /\ scanned.stopAtLine # NoNum
                   /\ scanned.stopAtColumn # NoNum
                   /\ \/ scanned.line > scanned.stopAtLine
                      \/ /\ scanned.line = scanned.stopAtLine
                         /\ scanned.column >= scanned.stopAtColumn
    IN [r EXCEPT !.lexer = scanned, !.token = IF stopped THEN NullToken ELSE r.token]
    : r \in {getNextTokenInternal(lx, st, hp)} } : TRUE

\* getNextToken: remembers the token scanned, and withholds it once the
\* lexer has moved past an armed stop point.
getNextToken(lx, st, hp) ==
  CHOOSE returned \in {
    LET scanned == [r.lexer EXCEPT !.lastToken = r.token]
        stopped == /\ scanned.stopAtLine # NoNum
                   /\ scanned.stopAtColumn # NoNum
                   /\ \/ scanned.line > scanned.stopAtLine
                      \/ /\ scanned.line = scanned.stopAtLine
                         /\ scanned.column > scanned.stopAtColumn
    IN [r EXCEPT !.lexer = scanned, !.token = IF stopped THEN NullToken ELSE r.token]
    : r \in {getNextTokenInternal(lx, st, hp)} } : TRUE

----------------------------------------------------------------------------
\* Attributes and the semantic actions.

\* new Attributes(), also the value of the object literal {}.  Fields holding
\* a space-joined list of words (type, ref, ret) hold the sequence of words;
\* the empty string is the empty sequence.
NewAttributes ==
  [type |-> NoWords, symbol |-> NoSymbol, val |-> NoNum, lex |-> NoText,
   exit |-> NoNum, ret |-> NoWords, size |-> NoNum, length |-> NoNum,
   ref |-> NoWords, label |-> NoText, program_count |-> NoNum,
   line |-> NoNum, column |-> NoNum, llength |-> NoNum, fullLength |-> NoNum,
   position |-> NoNum,
   retLine |-> NoNum, retColumn |-> NoNum, retLength |-> NoNum, retPosition |-> NoNum,
   exitLine |-> NoNum, exitColumn |-> NoNum, exitLength |-> NoNum, exitPosition |-> NoNum]

\* A string of words is truthy when it is neither undefined nor empty.
Truthy(words) == words # NoWords /\ words # <<>>
\* words || "".
OrEmpty(words) == IF words = NoWords THEN <<>> ELSE words
\* a + " " + b on strings of words.
JoinWords(a, b) ==
  (IF a = <<>> THEN <<"">> ELSE a) \o (IF b = <<>> THEN <<"">> ELSE b)
\* s.split(" ").
SplitWords(words) == IF words = <<>> THEN <<"">> ELSE words

\* new SemanticActions(symbolTable, lexer).
SemanticActionsInit ==
  [declarationZone |-> FALSE, isGlobalScope |-> TRUE, globalDisplacement |-> 0,
   localDisplacement |-> 0, labelCounter |-> 2, errors |-> <<>>, warnings |-> <<>>]

\* The objects a semantic action can reach, and what an action returns.
World(st, hp, lx, sa) ==
  [symbolTable |-> st, heap |-> hp, lexer |-> lx, semanticActions |-> sa]
Returns(w, attributes) == [world |-> w, res |-> attributes]

\* setDeclarationZone keeping the mode to the semantic actions.
SemanticActions_setDeclarationZone_OwnCopy(w, isDeclaration) ==
  [w EXCEPT !.semanticActions.declarationZone = isDeclaration]

SemanticActions_setDeclarationZone(w, isDeclaration) ==
  [w EXCEPT !.semanticActions.declarationZone = isDeclaration,
            !.lexer = setDeclarationZone(w.lexer, isDeclaration)]

getAttribute(stack, index) ==
  IF Len(stack) - index - 1 >= 0 /\ Len(stack) - index - 1 < Len(stack)
  THEN stack[Len(stack) - index] ELSE NewAttributes

SemanticError(msg, pos, ln, col, len) ==
  [message |-> msg, position |-> pos, line |-> ln, column |-> col,
   length |-> len, severity |-> "error"]

addError(w, msg, pos, ln, col, len) ==
  [w EXCEPT !.semanticActions.errors = Append(@, SemanticError(msg, pos, ln, col, len))]

addErrorFromAttr(w, msg, attr) ==
  addError(w, msg, OrZero(attr.position), OrZero(attr.line), OrZero(attr.column),
           OrZero(attr.llength))

stringToDataType(typeStr) ==
  CASE typeStr = <<"integer">> -> "INTEGER"
    [] typeStr = <<"real">> -> "REAL"
    [] typeStr = <<"logical">> -> "BOOLEAN"
    [] typeStr = <<"character">> -> "CHAR"
    [] typeStr = <<"string">> -> "STRING"
    [] OTHER -> "VOID"

\* "main", "ProcLabel", "FuncLabel".
MainLabel == <<109, 97, 105, 110>>
ProcLabel == <<80, 114, 111, 99, 76, 97, 98, 101, 108>>
FuncLabel == <<70, 117, 110, 99, 76, 97, 98, 101, 108>>

acc1_AtLeastOne(w, stack) ==
  LET count == OrZero(getAttribute(stack, 1).program_count)
  IN Returns(IF count < 1
             THEN addError(w, "There must be a program declaration", 0, 0, 0, 0)
             ELSE w,
             NewAttributes)

acc1(w, stack) ==
  LET count == OrZero(getAttribute(stack, 1).program_count)
  IN Returns(IF count < 1
             THEN addError(w, "There must be a program declaration", 0, 0, 0, 0)
             ELSE IF count > 1
             THEN addError(w, "Only one program declaration can exist", 0, 0, 0, 0)
             ELSE w,
             NewAttributes)

acc2(w) ==
  Returns(SemanticActions_setDeclarationZone(
            [w EXCEPT !.symbolTable = reset(w.symbolTable),
                      !.semanticActions.isGlobalScope = TRUE,
                      !.semanticActions.globalDisplacement = 0],
            TRUE),
          NewAttributes)

acc3(w, stack) ==
  Returns(w, [NewAttributes EXCEPT
                !.program_count = 1 + OrZero(getAttribute(stack, 1).program_count)])

acc4(w, stack) ==
  Returns(w, [NewAttributes EXCEPT !.program_count = getAttribute(stack, 1).program_count])

\* The exit check shared by the actions that close a body.
exitOutsideLoop(w, bloqueAtb, msg) ==
  IF OrZero(bloqueAtb.exit) > 0
  THEN addError(w, msg,
         OrZero(OrElse(bloqueAtb.exitPosition, bloqueAtb.position)),
         OrZero(OrElse(bloqueAtb.exitLine, bloqueAtb.line)),
         OrZero(OrElse(bloqueAtb.exitColumn, bloqueAtb.column)),
         OrZero(OrElse(bloqueAtb.exitLength, bloqueAtb.llength)))
  ELSE w

closeBody_NoExit(w) ==
  SemanticActions_setDeclarationZone([w EXCEPT !.semanticActions.isGlobalScope = TRUE], TRUE)

\* The end of every body: leave the scope, back to global declarations.
closeBody(w) ==
  SemanticActions_setDeclarationZone(
    [w EXCEPT !.symbolTable = exitScope(w.symbolTable),
              !.semanticActions.isGlobalScope = TRUE],
    TRUE)

retError(w, bloqueAtb, msg) ==
  addError(w, msg, OrZero(bloqueAtb.retPosition), OrZero(bloqueAtb.retLine),
           OrZero(bloqueAtb.retColumn), OrZero(bloqueAtb.retLength))

acc7(w, stack) ==
  LET bloqueAtb == getAttribute(stack, 3)
      w1 == IF bloqueAtb.ret # <<"type_ok">> /\ bloqueAtb.ret # <<>>
               /\ bloqueAtb.ret # NoWords
            THEN retError(w, bloqueAtb, "Main program with non-empty return instruction")
            ELSE w
      w2 == exitOutsideLoop(w1, bloqueAtb, "Exit detected outside loop in Main Program")
  IN Returns(closeBody(w2), NewAttributes)

acc8(w, stack) ==
  LET pidAtb == getAttribute(stack, 1)
  IN Returns(IF pidAtb.symbol # NoSymbol
             THEN [w EXCEPT !.heap[pidAtb.symbol].kind = "PROGRAM",
                            !.heap[pidAtb.symbol].parameters = <<>>,
                            !.heap[pidAtb.symbol].label = MainLabel]
             ELSE w,
             NewAttributes)

acc9(w, stack) ==
  LET idAtb == getAttribute(stack, 1)
      scopeName == IF idAtb.symbol # NoSymbol THEN w.heap[idAtb.symbol].name
                   ELSE LocalName
  IN Returns([w EXCEPT !.semanticActions.isGlobalScope = FALSE,
                       !.semanticActions.localDisplacement = 0,
                       !.symbolTable = enterScope(w.symbolTable, scopeName)],
             [NewAttributes EXCEPT !.symbol = idAtb.symbol])

acc11(w, stack) ==
  LET bloqueAtb == getAttribute(stack, 3)
      w1 == IF bloqueAtb.type = <<"type_error">>
            THEN addError(w, "Error detected in the procedure body", 0,
                          OrZero(bloqueAtb.line), OrZero(bloqueAtb.column),
                          OrZero(bloqueAtb.llength))
            ELSE w
      w2 == IF bloqueAtb.ret # <<>> /\ bloqueAtb.ret # <<"type_ok">>
            THEN retError(w1, bloqueAtb, "Procedure with non-empty return instruction")
            ELSE w1
      w3 == exitOutsideLoop(w2, bloqueAtb, "Exit detected outside loop in Procedure")
  IN Returns(closeBody(w3), NewAttributes)

\* The Parameter list built from the space-joined types and modes of A.
RECURSIVE buildParameters(_, _, _)
buildParameters(tipos, modos, i) ==
  IF i > Len(tipos) THEN <<>>
  ELSE <<[name |-> i - 1, dataType |-> stringToDataType(<<tipos[i]>>),
          byReference |-> (i <= Len(modos) /\ modos[i] = "referencia")]>>
       \o buildParameters(tipos, modos, i + 1)

headerParameters(aAtb) ==
  IF OrZero(aAtb.length) > 0
  THEN buildParameters(IF Truthy(aAtb.type) THEN SplitWords(aAtb.type) ELSE <<>>,
                       IF Truthy(aAtb.ref) THEN SplitWords(aAtb.ref) ELSE <<>>, 1)
  ELSE <<>>

acc12(w, stack) ==
  LET pidAtb == getAttribute(stack, 3)
      aAtb == getAttribute(stack, 1)
      n == w.semanticActions.labelCounter
      w1 == IF pidAtb.symbol # NoSymbol
            THEN [w EXCEPT !.heap[pidAtb.symbol].kind = "PROCEDURE",
                           !.heap[pidAtb.symbol].label = ProcLabel \o numberToString(n),
                           !.heap[pidAtb.symbol].parameters = headerParameters(aAtb),
                           !.semanticActions.labelCounter = n + 1]
            ELSE w
  IN Returns(w1, [NewAttributes EXCEPT
                    !.label = numberToString(w1.semanticActions.labelCounter - 1)])

acc13(w, stack) ==
  LET bloqueAtb == getAttribute(stack, 3)
      pfidatAtb == getAttribute(stack, 11)
      w1 == IF bloqueAtb.ret # pfidatAtb.type /\ bloqueAtb.ret # <<"type_ok">>
            THEN retError(w, bloqueAtb, "Function with invalid return")
            ELSE IF bloqueAtb.ret = <<"type_ok">> /\ pfidatAtb.type # <<"void">>
            THEN addErrorFromAttr(w, "The function must return a value", pfidatAtb)
            ELSE w
      w2 == exitOutsideLoop(w1, bloqueAtb, "Exit cannot be placed outside the loop")
  IN Returns(closeBody(w2), NewAttributes)

acc14(w, stack) ==
  LET pidAtb == getAttribute(stack, 7)
      aAtb == getAttribute(stack, 5)
      tAtb == getAttribute(stack, 1)
      n == w.semanticActions.labelCounter
      w1 == IF pidAtb.symbol # NoSymbol
            THEN [w EXCEPT !.heap[pidAtb.symbol].kind = "FUNCTION",
                           !.heap[pidAtb.symbol].returnType =
                              stringToDataType(OrEmpty(tAtb.type)),
                           !.heap[pidAtb.symbol].label = FuncLabel \o numberToString(n),
                           !.heap[pidAtb.symbol].parameters = headerParameters(aAtb),
                           !.semanticActions.labelCounter = n + 1]
            ELSE w
  IN Returns(w1, [NewAttributes EXCEPT
                    !.type = tAtb.type,
                    !.label = numberToString(w1.semanticActions.labelCounter - 1)])

acc15(w, stack) ==
  LET idAtb == getAttribute(stack, 9)
      tAtb == getAttribute(stack, 5)
      sa == w.semanticActions
  IN Returns(
       IF idAtb.symbol # NoSymbol
       THEN IF sa.isGlobalScope
            THEN [w EXCEPT !.heap[idAtb.symbol].dataType = stringToDataType(OrEmpty(tAtb.type)),
                           !.heap[idAtb.symbol].offset = sa.globalDisplacement,
                           !.semanticActions.globalDisplacement = @ + OrZero(tAtb.size)]
            ELSE [w EXCEPT !.heap[idAtb.symbol].dataType = stringToDataType(OrEmpty(tAtb.type)),
                           !.heap[idAtb.symbol].offset = sa.localDisplacement,
                           !.semanticActions.localDisplacement = @ + OrZero(tAtb.size)]
       ELSE w,
       NewAttributes)

\* acc22 and acc24, which differ only in where the attributes sit on the stack.
parameter(w, idAtb, tAtb, xAtb, aaAtb) ==
  LET typeStr == OrEmpty(tAtb.type)
      byRef == xAtb.ref = <<"reference">>
      refTail == IF Truthy(aaAtb.ref) THEN aaAtb.ref ELSE <<>>
      w1 == IF idAtb.symbol # NoSymbol
            THEN [w EXCEPT !.heap[idAtb.symbol].dataType = stringToDataType(typeStr),
                           !.heap[idAtb.symbol].offset = w.semanticActions.localDisplacement,
                           !.heap[idAtb.symbol].byReference = IF byRef THEN "true" ELSE "false",
                           !.semanticActions.localDisplacement =
                              @ + (IF byRef THEN 1 ELSE OrZero(tAtb.size))]
            ELSE w
  IN Returns(w1,
       [NewAttributes EXCEPT
          !.ref = IF idAtb.symbol # NoSymbol
                  THEN <<IF byRef THEN "reference" ELSE "value">> \o refTail
                  ELSE NoWords,
          !.type = IF Truthy(aaAtb.type) THEN JoinWords(typeStr, aaAtb.type) ELSE typeStr,
          !.length = 1 + OrZero(aaAtb.length)])

\* Copies of the return-propagation fields of `from` into `res`.
withRet(res, from) ==
  [res EXCEPT !.ret = from.ret, !.retLine = from.retLine, !.retColumn = from.retColumn,
              !.retLength = from.retLength, !.retPosition = from.retPosition]

\* acc26, acc31 and acc46: type, exit and return of the attributes at `index`.
propagate(w, stack, index) ==
  LET atb == getAttribute(stack, index)
  IN Returns(w, withRet([NewAttributes EXCEPT !.type = atb.type, !.exit = atb.exit], atb))

acc27(w, stack) ==
  LET bAtb == getAttribute(stack, 3)
      cAtb == getAttribute(stack, 1)
      bRet == IF Truthy(bAtb.ret) THEN bAtb.ret ELSE <<"type_ok">>
      cRet == IF Truthy(cAtb.ret) THEN cAtb.ret ELSE <<"type_ok">>
      base == [NewAttributes EXCEPT
                 !.type = IF bAtb.type = <<"type_ok">> THEN cAtb.type ELSE <<"type_error">>,
                 !.exit = OrZero(bAtb.exit) + OrZero(cAtb.exit),
                 !.exitPosition = OrElse(bAtb.exitPosition, cAtb.exitPosition),
                 !.exitLine = OrElse(bAtb.exitLine, cAtb.exitLine),
                 !.exitColumn = OrElse(bAtb.exitColumn, cAtb.exitColumn),
                 !.exitLength = OrElse(bAtb.exitLength, cAtb.exitLength)]
      ln == OrZero(OrElse(cAtb.retLine, bAtb.retLine))
      col == OrZero(OrElse(cAtb.retColumn, bAtb.retColumn))
      len == OrZero(OrElse(cAtb.retLength, bAtb.retLength))
      pos == OrZero(OrElse(cAtb.retPosition, bAtb.retPosition))
  IN IF bRet = cRet
     THEN Returns(w, [base EXCEPT !.ret = bRet,
                        !.retLine = OrElse(bAtb.retLine, cAtb.retLine),
                        !.retColumn = OrElse(bAtb.retColumn, cAtb.retColumn),
                        !.retLength = OrElse(bAtb.retLength, cAtb.retLength),
                        !.retPosition = OrElse(bAtb.retPosition, cAtb.retPosition)])
     ELSE IF bRet = <<"type_ok">>
     THEN Returns(w, [withRet(base, cAtb) EXCEPT !.ret = cRet])
     ELSE IF cRet = <<"type_ok">>
     THEN Returns(w, [withRet(base, bAtb) EXCEPT !.ret = bRet])
     ELSE Returns(addError(w, "Return types of different types in subprogram",
                           pos, ln, col, len),
                  [base EXCEPT !.ret = <<"type_error">>, !.retLine = ln,
                     !.retColumn = col, !.retLength = len, !.retPosition = pos])

\* The type word of a symbol's dataType as the statement actions read it.
dataTypeWord(dataType, other) ==
  CASE dataType = "INTEGER" -> <<"integer">>
    [] dataType = "BOOLEAN" -> <<"logical">>
    [] dataType = "STRING" -> <<"string">>
    [] OTHER -> other

statementResult(typeWord) ==
  [NewAttributes EXCEPT !.type = <<typeWord>>, !.exit = 0, !.ret = <<"type_ok">>]

acc51_Silent(w, stack) ==
  LET eType == getAttribute(stack, 3).type
      eTipo == IF Truthy(eType) THEN eType ELSE <<"unknown">>
      sym == getAttribute(stack, 7).symbol
      idTipo == IF sym # NoSymbol THEN dataTypeWord(w.heap[sym].dataType, <<"unknown">>)
                ELSE <<"unknown">>
  IN IF idTipo = eTipo /\ eTipo # <<"type_error">>
     THEN Returns(w, statementResult("type_ok"))
     ELSE Returns(w, statementResult("type_error"))

acc51(w, stack) ==
  LET eType == getAttribute(stack, 3).type
      eTipo == IF Truthy(eType) THEN eType ELSE <<"unknown">>
      idAtb == getAttribute(stack, 7)
      sym == idAtb.symbol
      idTipo == IF sym # NoSymbol THEN dataTypeWord(w.heap[sym].dataType, <<"unknown">>)
                ELSE <<"unknown">>
      kind == IF sym # NoSymbol THEN w.heap[sym].kind ELSE "UNKNOWN"
      \* `${idTipo} is not compatible with ${eTipo}`; for words other than
      \* these only the fixed part of the message is kept.
      words == {"integer", "logical", "string", "unknown"}
      notCompatible ==
        IF Len(idTipo) = 1 /\ Len(eTipo) = 1 /\ idTipo[1] \in words /\ eTipo[1] \in words
        THEN [a \in words |-> [b \in words |->
               CASE a = "integer" /\ b = "integer" -> "integer is not compatible with integer"
                 [] a = "integer" /\ b = "logical" -> "integer is not compatible with logical"
                 [] a = "integer" /\ b = "string" -> "integer is not compatible with string"
                 [] a = "integer" /\ b = "unknown" -> "integer is not compatible with unknown"
                 [] a = "logical" /\ b = "integer" -> "logical is not compatible with integer"
                 [] a = "logical" /\ b = "logical" -> "logical is not compatible with logical"
                 [] a = "logical" /\ b = "string" -> "logical is not compatible with string"
                 [] a = "logical" /\ b = "unknown" -> "logical is not compatible with unknown"
                 [] a = "string" /\ b = "integer" -> "string is not compatible with integer"
                 [] a = "string" /\ b = "logical" -> "string is not compatible with logical"
                 [] a = "string" /\ b = "string" -> "string is not compatible with string"
                 [] a = "string" /\ b = "unknown" -> "string is not compatible with unknown"
                 [] a = "unknown" /\ b = "integer" -> "unknown is not compatible with integer"
                 [] a = "unknown" /\ b = "logical" -> "unknown is not compatible with logical"
                 [] a = "unknown" /\ b = "string" -> "unknown is not compatible with string"
                 [] a = "unknown" /\ b = "unknown" -> "unknown is not compatible with unknown"]][idTipo[1]][eTipo[1]]
        ELSE "is not compatible with"
  IN IF idTipo = eTipo /\ eTipo # <<"type_error">>
     THEN Returns(w, statementResult("type_ok"))
     ELSE LET w1 == IF eTipo # <<"type_error">> /\ idTipo # <<"type_error">>
                    THEN addErrorFromAttr(
                           IF kind = "FUNCTION"
                           THEN addErrorFromAttr(w, "Cannot assign a value to a function (or var = func)", idAtb)
                           ELSE w,
                           notCompatible, idAtb)
                    ELSE w
          IN Returns(w1, statementResult("type_error"))

\* expectedType of a Parameter; `other` is the word for any other dataType.
expectedType(param, other) == dataTypeWord(param.dataType, <<other>>)[1]

\* Indices i of the loops over params where llAtributos[i] differs from the
\* expected type (llAtributos[i] is undefined past the end of the array).
mismatches(params, llAtributos, other, tolerateError) ==
  {i \in 1..Len(params) :
     /\ (IF i <= Len(llAtributos) THEN llAtributos[i] ELSE Undef)
          # expectedType(params[i], other)
     /\ ~(tolerateError /\ i <= Len(llAtributos) /\ llAtributos[i] = "type_error")}

acc52(w, stack) ==
  LET idATB == getAttribute(stack, 5)
      llATB == getAttribute(stack, 3)
      sym == idATB.symbol
  IN IF sym = NoSymbol
     THEN Returns(w, [NewAttributes EXCEPT !.type = <<"type_error">>])
     ELSE LET s == w.heap[sym]
              llAtributos == IF Truthy(llATB.type) THEN SplitWords(llATB.type) ELSE <<>>
          IN IF OrZero(llATB.length) > 0 \/ s.kind = "PROCEDURE"
             THEN IF s.label = MainLabel
                  THEN Returns(addErrorFromAttr(w, "The main program cannot be called", idATB),
                               statementResult("type_error"))
                  ELSE IF Len(llAtributos) # Len(s.parameters)
                  THEN Returns(addErrorFromAttr(w, "Incorrect number of parameters", idATB),
                               statementResult("type_error"))
                  ELSE IF mismatches(s.parameters, llAtributos, "desconocido", TRUE) # {}
                  THEN Returns(addErrorFromAttr(w, "Incompatible parameter types", idATB),
                               statementResult("type_error"))
                  ELSE Returns(w, statementResult("type_ok"))
             ELSE IF Len(s.parameters) = 0
                  THEN Returns(w, statementResult("type_ok"))
                  ELSE Returns(addErrorFromAttr(w, "Missing parameters", idATB),
                               statementResult("type_error"))

acc55(w, stack) ==
  LET lATB == getAttribute(stack, 3)
  IN Returns(w, [NewAttributes EXCEPT !.type = lATB.type, !.length = lATB.length])

acc57(w, stack) ==
  LET qATB == getAttribute(stack, 1)
      eATB == getAttribute(stack, 3)
  IN Returns(w, [NewAttributes EXCEPT
                   !.type = IF ~Truthy(qATB.type) THEN eATB.type
                            ELSE JoinWords(OrEmpty(eATB.type), qATB.type),
                   !.length = 1 + OrZero(qATB.length)])

acc77(w, stack) ==
  LET i == getAttribute(stack, 1)
      h == getAttribute(stack, 5)
  IN IF i.type = h.type /\ (i.type = <<"integer">> \/ i.type = <<"string">>)
     THEN Returns(w, [NewAttributes EXCEPT !.type = h.type])
     ELSE Returns(
            IF i.type # <<"type_error">> /\ h.type # <<"type_error">>
            THEN IF i.type # h.type
                 THEN addErrorFromAttr(w, "Incompatible types for +", h)
                 ELSE addErrorFromAttr(w, "Incompatible type for +", i)
            ELSE w,
            [NewAttributes EXCEPT !.type = <<"type_error">>])

\* Errors for the arguments of a call in an expression, one per mismatch,
\* in argument order.
RECURSIVE argumentErrors(_, _, _, _, _, _)
argumentErrors(w, params, args, idAtb, msg, i) ==
  IF i > Len(params) THEN w
  ELSE argumentErrors(
         IF i \in mismatches(params, args, "unknown", FALSE) THEN addErrorFromAttr(w, msg, idAtb) ELSE w,
         params, args, idAtb, msg, i + 1)

acc94(w, stack) ==
  LET llAtb == getAttribute(stack, 1)
      idAtb == getAttribute(stack, 3)
      sym == idAtb.symbol
  IN IF sym = NoSymbol
     THEN Returns(w, [NewAttributes EXCEPT !.type = <<"type_error">>])
     ELSE LET s == w.heap[sym]
              llAtributos == IF Truthy(llAtb.type) THEN SplitWords(llAtb.type) ELSE <<>>
              argCount == OrZero(llAtb.length)
              error == [NewAttributes EXCEPT !.type = <<"type_error">>]
          IN IF s.kind = "FUNCTION"
             THEN IF argCount # Len(s.parameters)
                  THEN Returns(addErrorFromAttr(w, "Incorrect number of arguments", idAtb), error)
                  ELSE IF mismatches(s.parameters, llAtributos, "unknown", FALSE) # {}
                  THEN Returns(argumentErrors(w, s.parameters, llAtributos, idAtb,
                                              "Argument type mismatch", 1), error)
                  ELSE Returns(w, [NewAttributes EXCEPT
                                     !.type = dataTypeWord(s.returnType, <<"string">>)])
             ELSE IF s.kind = "PROCEDURE"
             THEN LET w1 == IF argCount # Len(s.parameters)
                            THEN addErrorFromAttr(w,
                                   "Incorrect number of arguments for procedure", idAtb)
                            ELSE argumentErrors(w, s.parameters, llAtributos, idAtb,
                                   "Argument type mismatch for procedure", 1)
                  IN Returns(addErrorFromAttr(w1, "A procedure returns nothing", idAtb), error)
             ELSE IF argCount > 0
                  THEN Returns(addErrorFromAttr(w, "Variables do not take arguments", idAtb), error)
                  ELSE Returns(w, [NewAttributes EXCEPT
                                     !.type = dataTypeWord(s.dataType, <<"string">>)])

\* Copies of the exit-position fields of `from` into `res`.
withExitPosition(res, from) ==
  [res EXCEPT !.exitPosition = from.exitPosition, !.exitLine = from.exitLine,
              !.exitColumn = from.exitColumn, !.exitLength = from.exitLength]

\* res.exitX = a.exitX || b.exitX.
withEitherExitPosition(res, a, b) ==
  [res EXCEPT !.exitPosition = OrElse(a.exitPosition, b.exitPosition),
              !.exitLine = OrElse(a.exitLine, b.exitLine),
              !.exitColumn = OrElse(a.exitColumn, b.exitColumn),
              !.exitLength = OrElse(a.exitLength, b.exitLength)]

\* res.retX = a.retX || b.retX.
withEitherRet(res, a, b) ==
  [res EXCEPT !.retLine = OrElse(a.retLine, b.retLine),
              !.retColumn = OrElse(a.retColumn, b.retColumn),
              !.retLength = OrElse(a.retLength, b.retLength),
              !.retPosition = OrElse(a.retPosition, b.retPosition)]

\* res.ret = "type_error" with retX = a.retX || b.retX || 0.
withRetError(res, a, b) ==
  [withEitherRet(res, a, b) EXCEPT
     !.ret = <<"type_error">>,
     !.retLine = OrZero(OrElse(a.retLine, b.retLine)),
     !.retColumn = OrZero(OrElse(a.retColumn, b.retColumn)),
     !.retLength = OrZero(OrElse(a.retLength, b.retLength)),
     !.retPosition = OrZero(OrElse(a.retPosition, b.retPosition))]

\* addError at a.retX || b.retX || 0.
addRetError(w, msg, a, b) ==
  addError(w, msg, OrZero(OrElse(a.retPosition, b.retPosition)),
           OrZero(OrElse(a.retLine, b.retLine)),
           OrZero(OrElse(a.retColumn, b.retColumn)),
           OrZero(OrElse(a.retLength, b.retLength)))

acc29(w, stack) ==
  LET eeAtb == getAttribute(stack, 5)
      sAtb == getAttribute(stack, 1)
      res == withRet([NewAttributes EXCEPT !.exit = sAtb.exit], sAtb)
  IN IF eeAtb.type = <<"logical">>
     THEN Returns(w, [res EXCEPT !.type = sAtb.type])
     ELSE Returns(IF eeAtb.type # <<"type_error">>
                  THEN addErrorFromAttr(w,
                         "The IF statement only accepts logical expressions", eeAtb)
                  ELSE w,
                  [res EXCEPT !.type = <<"type_error">>])

acc32(w, stack) ==
  LET eeAtb == getAttribute(stack, 7)
      bloqueAtb == getAttribute(stack, 3)
      res == withRet([NewAttributes EXCEPT !.exit = bloqueAtb.exit], bloqueAtb)
  IN IF eeAtb.type = <<"logical">>
     THEN Returns(w, [res EXCEPT !.type = bloqueAtb.type])
     ELSE Returns(IF eeAtb.type # <<"type_error">>
                  THEN addErrorFromAttr(w,
                         "Compound conditional statement with non-logical condition", eeAtb)
                  ELSE w,
                  [res EXCEPT !.type = <<"type_error">>])

acc33(w, stack) ==
  LET thenAtb == getAttribute(stack, 7)
      bloqueAtb == getAttribute(stack, 3)
      base == withEitherExitPosition(
                [NewAttributes EXCEPT
                   !.type = IF thenAtb.type = <<"type_ok">> THEN bloqueAtb.type
                            ELSE <<"type_error">>,
                   !.exit = OrZero(thenAtb.exit) + OrZero(bloqueAtb.exit)],
                thenAtb, bloqueAtb)
  IN IF thenAtb.ret = bloqueAtb.ret
     THEN Returns(w, [withEitherRet(base, thenAtb, bloqueAtb) EXCEPT !.ret = bloqueAtb.ret])
     ELSE IF thenAtb.ret = <<"type_ok">>
     THEN Returns(w, withRet(base, bloqueAtb))
     ELSE IF bloqueAtb.ret = <<"type_ok">>
     THEN Returns(w, withRet(base, thenAtb))
     ELSE Returns(addRetError(w,
                    "Return instructions of different types in compound conditional statement",
                    thenAtb, bloqueAtb),
                  withRetError(base, thenAtb, bloqueAtb))

checkLogicAndPropagate(w, stack, condIdx, blockIdx) ==
  LET eeATB == getAttribute(stack, condIdx)
      bloqueATB == getAttribute(stack, blockIdx)
      res == withRet([NewAttributes EXCEPT !.exit = bloqueATB.exit], bloqueATB)
  IN IF eeATB.type = <<"logical">>
     THEN Returns(w, [res EXCEPT !.type = bloqueATB.type])
     ELSE Returns(IF eeATB.type # <<"type_error">>
                  THEN addError(w, "Incompatible type. Expected: Logical",
                         OrZero(eeATB.position), OrZero(eeATB.line),
                         OrZero(eeATB.column), OrZero(eeATB.llength))
                  ELSE w,
                  [res EXCEPT !.type = <<"type_error">>])

acc38_AtLeastOne(w, stack) ==
  LET cATB == getAttribute(stack, 5)
      loopATB == getAttribute(stack, 9)
  IN Returns(IF cATB.exit < 1
             THEN addErrorFromAttr(w, "Loop: Must contain at least one exit", loopATB)
             ELSE w,
             withExitPosition(
               withRet([NewAttributes EXCEPT !.type = cATB.type, !.exit = 0], cATB),
               cATB))

acc38(w, stack) ==
  LET cATB == getAttribute(stack, 5)
      loopATB == getAttribute(stack, 9)
  IN Returns(IF cATB.exit # 1
             THEN addErrorFromAttr(w, "Loop: Must contain at least one exit", loopATB)
             ELSE w,
             withExitPosition(
               withRet([NewAttributes EXCEPT !.type = cATB.type, !.exit = 0], cATB),
               cATB))

acc39(w, stack) ==
  LET forATB == getAttribute(stack, 7)
      bloqueATB == getAttribute(stack, 3)
      res == withExitPosition(
               withRet([NewAttributes EXCEPT !.exit = bloqueATB.exit], bloqueATB),
               bloqueATB)
  IN IF forATB.type = <<"type_ok">>
     THEN Returns(w, [res EXCEPT !.type = bloqueATB.type])
     ELSE Returns(IF forATB.type # <<"type_error">>
                  THEN addErrorFromAttr(w, "Error in FOR loop", forATB)
                  ELSE w,
                  [res EXCEPT !.type = <<"type_error">>])

acc40(w, stack) ==
  LET idATB == getAttribute(stack, 9)
      e1ATB == getAttribute(stack, 5)
      e2ATB == getAttribute(stack, 1)
      forATB == getAttribute(stack, 11)
      idTipo == IF idATB.symbol # NoSymbol THEN <<"integer">> ELSE <<"unknown">>
  IN IF e1ATB.type = e2ATB.type /\ idTipo = e1ATB.type /\ e1ATB.type = <<"integer">>
     THEN Returns(w, [NewAttributes EXCEPT !.type = <<"type_ok">>])
     ELSE Returns(IF e1ATB.type # <<"type_error">> /\ e2ATB.type # <<"type_error">>
                  THEN addErrorFromAttr(w, "Invalid for types", forATB)
                  ELSE w,
                  [NewAttributes EXCEPT !.type = <<"type_error">>])

acc41(w, stack) ==
  LET expATB == getAttribute(stack, 11)
      nATB == getAttribute(stack, 7)
      oATB == getAttribute(stack, 5)
      caseATB == getAttribute(stack, 13)
      ok == expATB.type = <<"integer">> /\ nATB.type = oATB.type
            /\ oATB.type = <<"type_ok">>
      w1 == IF ~ok /\ oATB.type = <<"type_ok">> /\ expATB.type # <<"type_error">>
            THEN addErrorFromAttr(w, "Invalid case types", caseATB)
            ELSE w
      base == withEitherExitPosition(
                [NewAttributes EXCEPT
                   !.type = IF ok THEN <<"type_ok">> ELSE <<"type_error">>,
                   !.exit = OrZero(nATB.exit) + OrZero(oATB.exit)],
                nATB, oATB)
  IN IF nATB.ret = oATB.ret \/ oATB.ret = <<"type_ok">>
     THEN Returns(w1, withRet(base, nATB))
     ELSE IF nATB.ret = <<"type_ok">>
     THEN Returns(w1, withRet(base, oATB))
     ELSE Returns(IF nATB.ret # <<"type_error">> /\ oATB.ret # <<"type_error">>
                  THEN addRetError(w1, "Incompatible return types in case", nATB, oATB)
                  ELSE w1,
                  withRetError(base, nATB, oATB))

acc43(w, stack) ==
  LET nATB == getAttribute(stack, 9)
      bloqueATB == getAttribute(stack, 3)
      w1 == IF nATB.type # <<"type_ok">> /\ nATB.type # <<"type_error">>
            THEN addErrorFromAttr(w, "Error in case", nATB)
            ELSE w
      base == withEitherExitPosition(
                [NewAttributes EXCEPT
                   !.type = IF nATB.type = <<"type_ok">> THEN bloqueATB.type
                            ELSE <<"type_error">>,
                   !.exit = OrZero(nATB.exit) + OrZero(bloqueATB.exit)],
                nATB, bloqueATB)
  IN IF nATB.ret = bloqueATB.ret \/ nATB.ret = <<"type_ok">>
     THEN Returns(w1, withRet(base, bloqueATB))
     ELSE IF bloqueATB.ret = <<"type_ok">>
     THEN Returns(w1, withRet(base, nATB))
     ELSE Returns(IF nATB.ret # <<"type_error">> /\ bloqueATB.ret # <<"type_error">>
                  THEN addRetError(w1, "Incompatible return types in case", nATB, bloqueATB)
                  ELSE w1,
                  withRetError(base, nATB, bloqueATB))

\* The types WRITE, WRITELN and READ reject.
Unprintable(tipos, acceptEmpty) ==
  \E i \in DOMAIN tipos :
     /\ ~(acceptEmpty /\ tipos[i] = "")
     /\ tipos[i] \notin {"integer", "string", "type_error"}

checkWrite(w, stack, stmt) ==
  LET llATB == getAttribute(stack, 3)
  IN IF Truthy(llATB.type) /\ Unprintable(SplitWords(llATB.type), TRUE)
     THEN Returns(addErrorFromAttr(w, stmt, llATB), statementResult("type_error"))
     ELSE Returns(w, statementResult("type_ok"))

acc50(w, stack) ==
  LET vATB == getAttribute(stack, 5)
      tipos == IF Truthy(vATB.type) THEN SplitWords(vATB.type) ELSE <<>>
  IN IF Unprintable(tipos, FALSE)
     THEN Returns(addErrorFromAttr(w, "READ only accepts integer or string", vATB),
                  statementResult("type_error"))
     ELSE Returns(w, statementResult("type_ok"))

acc53(w, stack) ==
  LET yATB == getAttribute(stack, 3)
      retToken == getAttribute(stack, 5)
  IN Returns(w, [NewAttributes EXCEPT
                   !.type = IF yATB.type # <<"type_error">> THEN <<"type_ok">>
                            ELSE <<"type_error">>,
                   !.exit = 0, !.ret = yATB.type,
                   !.retLine = retToken.line, !.retColumn = retToken.column,
                   !.retLength = retToken.llength, !.retPosition = retToken.position])

acc54(w, stack) ==
  LET eATB == getAttribute(stack, 3)
      exitKw == getAttribute(stack, 7)
  IN Returns(IF eATB.type # <<"logical">> /\ eATB.type # <<"type_error">>
             THEN addErrorFromAttr(w, "Exit condition error", exitKw)
             ELSE w,
             [NewAttributes EXCEPT
                !.type = IF eATB.type = <<"logical">> THEN <<"type_ok">>
                         ELSE <<"type_error">>,
                !.exit = 1, !.ret = <<"type_ok">>,
                !.exitPosition = exitKw.position, !.exitLine = exitKw.line,
                !.exitColumn = exitKw.column, !.exitLength = exitKw.llength])

acc60(w, stack) ==
  LET wATB == getAttribute(stack, 1)
      idATB == getAttribute(stack, 3)
      t == IF idATB.symbol # NoSymbol
           THEN (IF w.heap[idATB.symbol].dataType = "INTEGER" THEN <<"integer">>
                 ELSE <<"string">>)
           ELSE <<"unknown">>
  IN Returns(w, [NewAttributes EXCEPT
                   !.type = IF ~Truthy(wATB.type) THEN t ELSE JoinWords(t, wATB.type),
                   !.length = 1 + OrZero(wATB.length)])

\* checkBinaryOp looking at the left operand only.
checkBinaryOp_LeftOnly(w, stack, lhsIdx, rhsIdx, typeL, typeR, resultType) ==
  LET l == getAttribute(stack, lhsIdx)
  IN IF l.type = <<typeL>>
     THEN Returns(w, [NewAttributes EXCEPT !.type = <<resultType>>])
     ELSE Returns(
            IF l.type # <<"type_error">>
            THEN addErrorFromAttr(w, "Incompatible type: left operand", l)
            ELSE w,
            [NewAttributes EXCEPT !.type = <<"type_error">>])

checkBinaryOp(w, stack, lhsIdx, rhsIdx, typeL, typeR, resultType) ==
  LET l == getAttribute(stack, lhsIdx)
      r == getAttribute(stack, rhsIdx)
  IN IF l.type = <<typeL>> /\ r.type = <<typeR>>
     THEN Returns(w, [NewAttributes EXCEPT !.type = <<resultType>>])
     ELSE Returns(
            IF l.type # <<"type_error">> /\ r.type # <<"type_error">>
            THEN IF l.type # <<typeL>> /\ r.type # <<typeR>>
                 THEN addErrorFromAttr(w, "Incompatible types: left and right operand", l)
                 ELSE IF l.type # <<typeL>>
                 THEN addErrorFromAttr(w, "Incompatible type: left operand", l)
                 ELSE addErrorFromAttr(w, "Incompatible type: right operand", r)
            ELSE w,
            [NewAttributes EXCEPT !.type = <<"type_error">>])

\* acc86, acc87 and acc88: a unary operator on an operand of the type it expects.
unaryOp(w, stack, expected, msg) ==
  LET v == getAttribute(stack, 1)
  IN IF v.type = <<expected>>
     THEN Returns(w, [NewAttributes EXCEPT !.type = <<expected>>])
     ELSE Returns(IF v.type # <<"type_error">> THEN addErrorFromAttr(w, msg, v) ELSE w,
                  [NewAttributes EXCEPT !.type = <<"type_error">>])

acc96(w, stack) ==
  LET zAtb == getAttribute(stack, 9)
  IN IF zAtb.type = <<"integer">>
     THEN Returns(w, [NewAttributes EXCEPT !.type = <<"logical">>])
     ELSE Returns(IF zAtb.type # <<"type_error">>
                  THEN addErrorFromAttr(w, "Expected integer for index", zAtb)
                  ELSE w,
                  [NewAttributes EXCEPT !.type = <<"type_error">>])

\* The result of an action that only sets the type.
typed(w, words) == Returns(w, [NewAttributes EXCEPT !.type = words])

executeAction(ruleNumber, w, stack) ==
  CASE ruleNumber = 1 -> acc1(w, stack)
    [] ruleNumber = 2 -> acc2(w)
    [] ruleNumber = 3 -> acc3(w, stack)
    [] ruleNumber \in {4, 5} -> acc4(w, stack)
    [] ruleNumber = 6 -> Returns(w, [NewAttributes EXCEPT !.program_count = 0])
    [] ruleNumber = 7 -> acc7(w, stack)
    [] ruleNumber = 8 -> acc8(w, stack)
    [] ruleNumber = 9 -> acc9(w, stack)
    [] ruleNumber = 10 -> Returns(SemanticActions_setDeclarationZone(w, FALSE), NewAttributes)
    [] ruleNumber = 11 -> acc11(w, stack)
    [] ruleNumber = 12 -> acc12(w, stack)
    [] ruleNumber = 13 -> acc13(w, stack)
    [] ruleNumber = 14 -> acc14(w, stack)
    [] ruleNumber \in {15, 17} -> acc15(w, stack)
    [] ruleNumber \in {16, 18, 36, 44} -> Returns(w, NewAttributes)
    [] ruleNumber = 19 ->
         Returns(w, [NewAttributes EXCEPT !.type = <<"logical">>, !.size = 1])
    [] ruleNumber = 20 ->
         Returns(w, [NewAttributes EXCEPT !.type = <<"integer">>, !.size = 1])
    [] ruleNumber = 21 ->
         Returns(w, [NewAttributes EXCEPT !.type = <<"string">>, !.size = 64])
    [] ruleNumber = 22 ->
         parameter(w, getAttribute(stack, 9), getAttribute(stack, 5),
                   getAttribute(stack, 11), getAttribute(stack, 3))
    [] ruleNumber \in {23, 25, 56, 59, 62} ->
         Returns(w, [NewAttributes EXCEPT !.type = <<>>, !.length = 0])
    [] ruleNumber = 24 ->
         parameter(w, getAttribute(stack, 7), getAttribute(stack, 3),
                   getAttribute(stack, 9), getAttribute(stack, 1))
    [] ruleNumber \in {26, 46} -> propagate(w, stack, 3)
    [] ruleNumber = 27 -> acc27(w, stack)
    [] ruleNumber \in {28, 45, 47} ->
         Returns(w, [NewAttributes EXCEPT !.type = <<"type_ok">>, !.exit = 0,
                                          !.ret = <<"type_ok">>])
    [] ruleNumber = 29 -> acc29(w, stack)
    [] ruleNumber \in {30, 42, 63, 67, 69, 76, 79, 83, 85, 89} ->
         typed(w, getAttribute(stack, 1).type)
    [] ruleNumber = 31 -> propagate(w, stack, 1)
    [] ruleNumber = 32 -> acc32(w, stack)
    [] ruleNumber = 33 -> acc33(w, stack)
    [] ruleNumber \in {34, 35} -> checkLogicAndPropagate(w, stack, 7, 3)
    [] ruleNumber = 37 -> checkLogicAndPropagate(w, stack, 3, 7)
    [] ruleNumber = 38 -> acc38(w, stack)
    [] ruleNumber = 39 -> acc39(w, stack)
    [] ruleNumber = 40 -> acc40(w, stack)
    [] ruleNumber = 41 -> acc41(w, stack)
    [] ruleNumber = 43 -> acc43(w, stack)
    [] ruleNumber = 48 -> checkWrite(w, stack, "WRITE only accepts integer or string")
    [] ruleNumber = 49 -> checkWrite(w, stack, "WRITELN only accepts integer or string")
    [] ruleNumber = 50 -> acc50(w, stack)
    [] ruleNumber = 51 -> acc51(w, stack)
    [] ruleNumber = 52 -> acc52(w, stack)
    [] ruleNumber = 53 -> acc53(w, stack)
    [] ruleNumber = 54 -> acc54(w, stack)
    [] ruleNumber = 55 -> acc55(w, stack)
    [] ruleNumber \in {57, 58} -> acc57(w, stack)
    [] ruleNumber \in {60, 61} -> acc60(w, stack)
    [] ruleNumber = 64 -> typed(w, <<>>)
    [] ruleNumber \in {65, 66, 68} ->
         checkBinaryOp(w, stack, 5, 1, "logical", "logical", "logical")
    [] ruleNumber \in 70..75 ->
         checkBinaryOp(w, stack, 5, 1, "integer", "integer", "logical")
    [] ruleNumber = 77 -> acc77(w, stack)
    [] ruleNumber \in {78, 80, 81, 82} ->
         checkBinaryOp(w, stack, 5, 1, "integer", "integer", "integer")
    [] ruleNumber = 84 -> checkBinaryOp(w, stack, 1, 5, "integer", "integer", "integer")
    [] ruleNumber = 86 -> unaryOp(w, stack, "logical", "Expected logical")
    [] ruleNumber \in {87, 88} -> unaryOp(w, stack, "integer", "Expected integer")
    [] ruleNumber \in {90, 97, 98} -> typed(w, <<"integer">>)
    [] ruleNumber = 91 -> typed(w, <<"string">>)
    [] ruleNumber \in {92, 93} -> typed(w, <<"logical">>)
    [] ruleNumber = 94 -> acc94(w, stack)
    [] ruleNumber = 95 -> typed(w, getAttribute(stack, 3).type)
    [] ruleNumber = 96 -> acc96(w, stack)
    [] ruleNumber = 99 -> Returns(w, [NewAttributes EXCEPT !.ref = <<"reference">>])
    [] ruleNumber = 100 -> Returns(w, [NewAttributes EXCEPT !.ref = <<"value">>])
    [] OTHER -> Returns(w, NewAttributes)

----------------------------------------------------------------------------
\* Grammar and parsing tables.

\* Non-terminal column ids (columns after the 59 terminals of the table header).
nonTerminalNameToId ==
  "P" :> 60 @@ "M1" :> 61 @@ "R" :> 62 @@ "PP" :> 63 @@ "PPid" :> 64 @@ 
  "Pid" :> 65 @@ "M2" :> 66 @@ "PR" :> 67 @@ "PRidA" :> 68 @@ "PF" :> 69 @@ 
  "PFidAT" :> 70 @@ "D" :> 71 @@ "DD" :> 72 @@ "T" :> 73 @@ "A" :> 74 @@ 
  "AA" :> 75 @@ "Bloque" :> 76 @@ "C" :> 77 @@ "B" :> 78 @@ "EE" :> 79 @@ 
  "THEN" :> 80 @@ "M3" :> 81 @@ "FOR" :> 82 @@ "EXP" :> 83 @@ "N" :> 84 @@ 
  "VALOR" :> 85 @@ "O" :> 86 @@ "S" :> 87 @@ "LL" :> 88 @@ "L" :> 89 @@ 
  "Q" :> 90 @@ "V" :> 91 @@ "W" :> 92 @@ "Y" :> 93 @@ "E" :> 94 @@ 
  "F" :> 95 @@ "G" :> 96 @@ "H" :> 97 @@ "I" :> 98 @@ "J" :> 99 @@ 
  "K" :> 100 @@ "Z" :> 101 @@ "X" :> 102

\* Grammar rules, in the order of the rule list (rule i is production i).
rules == <<
  [lhs |-> "P", rhs |-> <<"M1", "D", "R">>],
  [lhs |-> "M1", rhs |-> <<"Lambda">>],
  [lhs |-> "R", rhs |-> <<"PP", "R">>],
  [lhs |-> "R", rhs |-> <<"PF", "R">>],
  [lhs |-> "R", rhs |-> <<"PR", "R">>],
  [lhs |-> "R", rhs |-> <<"Lambda">>],
  [lhs |-> "PP", rhs |-> <<"program", "PPid", ";", "D", "M2", "Bloque", ";">>],
  [lhs |-> "PPid", rhs |-> <<"Pid">>],
  [lhs |-> "Pid", rhs |-> <<"id">>],
  [lhs |-> "M2", rhs |-> <<"Lambda">>],
  [lhs |-> "PR", rhs |-> <<"procedure", "PRidA", ";", "D", "M2", "Bloque", ";">>],
  [lhs |-> "PRidA", rhs |-> <<"Pid", "A">>],
  [lhs |-> "PF", rhs |-> <<"function", "PFidAT", ";", "D", "M2", "Bloque", ";">>],
  [lhs |-> "PFidAT", rhs |-> <<"Pid", "A", ":", "T">>],
  [lhs |-> "D", rhs |-> <<"var", "id", ":", "T", ";", "DD">>],
  [lhs |-> "D", rhs |-> <<"Lambda">>],
  [lhs |-> "DD", rhs |-> <<"id", ":", "T", ";", "DD">>],
  [lhs |-> "DD", rhs |-> <<"Lambda">>],
  [lhs |-> "T", rhs |-> <<"boolean">>],
  [lhs |-> "T", rhs |-> <<"integer">>],
  [lhs |-> "T", rhs |-> <<"string">>],
  [lhs |-> "A", rhs |-> <<"(", "X", "id", ":", "T", "AA", ")">>],
  [lhs |-> "A", rhs |-> <<"Lambda">>],
  [lhs |-> "AA", rhs |-> <<";", "X", "id", ":", "T", "AA">>],
  [lhs |-> "AA", rhs |-> <<"Lambda">>],
  [lhs |-> "Bloque", rhs |-> <<"begin", "C", "end">>],
  [lhs |-> "C", rhs |-> <<"B", "C">>],
  [lhs |-> "C", rhs |-> <<"Lambda">>],
  [lhs |-> "B", rhs |-> <<"if", "EE", "then", "S">>],
  [lhs |-> "EE", rhs |-> <<"E">>],
  [lhs |-> "B", rhs |-> <<"S">>],
  [lhs |-> "B", rhs |-> <<"if", "EE", "then", "Bloque", ";">>],
  [lhs |-> "B", rhs |-> <<"if", "THEN", "else", "Bloque", ";">>],
  [lhs |-> "THEN", rhs |-> <<"EE", "then", "Bloque", ";">>],
  [lhs |-> "B", rhs |-> <<"while", "M3", "EE", "do", "Bloque", ";">>],
  [lhs |-> "M3", rhs |-> <<"Lambda">>],
  [lhs |-> "B", rhs |-> <<"repeat", "M3", "C", "until", "E", ";">>],
  [lhs |-> "B", rhs |-> <<"loop", "M3", "C", "end", ";">>],
  [lhs |-> "B", rhs |-> <<"FOR", "do", "Bloque", ";">>],
  [lhs |-> "FOR", rhs |-> <<"for", "id", ":=", "E", "to", "E">>],
  [lhs |-> "B", rhs |-> <<"case", "EXP", "of", "N", "O", "end", ";">>],
  [lhs |-> "EXP", rhs |-> <<"E">>],
  [lhs |-> "N", rhs |-> <<"N", "VALOR", ":", "Bloque", ";">>],
  [lhs |-> "VALOR", rhs |-> <<"entero">>],
  [lhs |-> "N", rhs |-> <<"Lambda">>],
  [lhs |-> "O", rhs |-> <<"otherwise", ":", "M3", "Bloque", ";">>],
  [lhs |-> "O", rhs |-> <<"Lambda">>],
  [lhs |-> "S", rhs |-> <<"write", "LL", ";">>],
  [lhs |-> "S", rhs |-> <<"writeln", "LL", ";">>],
  [lhs |-> "S", rhs |-> <<"read", "(", "V", ")", ";">>],
  [lhs |-> "S", rhs |-> <<"id", ":=", "E", ";">>],
  [lhs |-> "S", rhs |-> <<"id", "LL", ";">>],
  [lhs |-> "S", rhs |-> <<"return", "Y", ";">>],
  [lhs |-> "S", rhs |-> <<"exit", "when", "E", ";">>],
  [lhs |-> "LL", rhs |-> <<"(", "L", ")">>],
  [lhs |-> "LL", rhs |-> <<"Lambda">>],
  [lhs |-> "L", rhs |-> <<"E", "Q">>],
  [lhs |-> "Q", rhs |-> <<",", "E", "Q">>],
  [lhs |-> "Q", rhs |-> <<"Lambda">>],
  [lhs |-> "V", rhs |-> <<"id", "W">>],
  [lhs |-> "W", rhs |-> <<",", "id", "W">>],
  [lhs |-> "W", rhs |-> <<"Lambda">>],
  [lhs |-> "Y", rhs |-> <<"E">>],
  [lhs |-> "Y", rhs |-> <<"Lambda">>],
  [lhs |-> "E", rhs |-> <<"E", "or", "F">>],
  [lhs |-> "E", rhs |-> <<"E", "xor", "F">>],
  [lhs |-> "E", rhs |-> <<"F">>],
  [lhs |-> "F", rhs |-> <<"F", "and", "G">>],
  [lhs |-> "F", rhs |-> <<"G">>],
  [lhs |-> "G", rhs |-> <<"G", "=", "H">>],
  [lhs |-> "G", rhs |-> <<"G", "<>", "H">>],
  [lhs |-> "G", rhs |-> <<"G", ">", "H">>],
  [lhs |-> "G", rhs |-> <<"G", ">=", "H">>],
  [lhs |-> "G", rhs |-> <<"G", "<", "H">>],
  [lhs |-> "G", rhs |-> <<"G", "<=", "H">>],
  [lhs |-> "G", rhs |-> <<"H">>],
  [lhs |-> "H", rhs |-> <<"H", "+", "I">>],
  [lhs |-> "H", rhs |-> <<"H", "-", "I">>],
  [lhs |-> "H", rhs |-> <<"I">>],
  [lhs |-> "I", rhs |-> <<"I", "*", "J">>],
  [lhs |-> "I", rhs |-> <<"I", "/", "J">>],
  [lhs |-> "I", rhs |-> <<"I", "mod", "J">>],
  [lhs |-> "I", rhs |-> <<"J">>],
  [lhs |-> "J", rhs |-> <<"J", "**", "K">>],
  [lhs |-> "J", rhs |-> <<"K">>],
  [lhs |-> "K", rhs |-> <<"not", "K">>],
  [lhs |-> "K", rhs |-> <<"+", "K">>],
  [lhs |-> "K", rhs |-> <<"-", "K">>],
  [lhs |-> "K", rhs |-> <<"Z">>],
  [lhs |-> "Z", rhs |-> <<"entero">>],
  [lhs |-> "Z", rhs |-> <<"cadena">>],
  [lhs |-> "Z", rhs |-> <<"true">>],
  [lhs |-> "Z", rhs |-> <<"false">>],
  [lhs |-> "Z", rhs |-> <<"id", "LL">>],
  [lhs |-> "Z", rhs |-> <<"(", "E", ")">>],
  [lhs |-> "Z", rhs |-> <<"Z", "in", "(", "L", ")">>],
  [lhs |-> "Z", rhs |-> <<"max", "(", "L", ")">>],
  [lhs |-> "Z", rhs |-> <<"min", "(", "L", ")">>],
  [lhs |-> "X", rhs |-> <<"var">>],
  [lhs |-> "X", rhs |-> <<"Lambda">>]
>>

\* ACTION table of the canonical SLR(1) automaton of the rules: row s+1 is
\* state s, a cell is <<type, value>>; an absent key is an empty cell.
actionTable == <<
  [t \in {0, 3, 4, 6, 58} |-> <<1, 2>>],
  (58 :> <<2, 0>>),
  [t \in {0, 3, 4, 14, 58} |-> <<1, 16>>] @@ (6 :> <<0, 4>>),
  (0 :> <<0, 9>>) @@ (3 :> <<0, 10>>) @@ (4 :> <<0, 11>>) @@ (58 :> <<1, 6>>),
  (2 :> <<0, 12>>),
  (58 :> <<1, 1>>),
  (0 :> <<0, 9>>) @@ (3 :> <<0, 10>>) @@ (4 :> <<0, 11>>) @@ (58 :> <<1, 6>>),
  (0 :> <<0, 9>>) @@ (3 :> <<0, 10>>) @@ (4 :> <<0, 11>>) @@ (58 :> <<1, 6>>),
  (0 :> <<0, 9>>) @@ (3 :> <<0, 10>>) @@ (4 :> <<0, 11>>) @@ (58 :> <<1, 6>>),
  (2 :> <<0, 18>>),
  (2 :> <<0, 18>>),
  (2 :> <<0, 18>>),
  (5 :> <<0, 23>>),
  (58 :> <<1, 3>>),
  (58 :> <<1, 4>>),
  (58 :> <<1, 5>>),
  (1 :> <<0, 24>>),
  (1 :> <<1, 8>>),
  [t \in {1, 5, 10} |-> <<1, 9>>],
  (1 :> <<0, 25>>),
  [t \in {1, 5} |-> <<1, 23>>] @@ (10 :> <<0, 27>>),
  (1 :> <<0, 28>>),
  [t \in {1, 5} |-> <<1, 23>>] @@ (10 :> <<0, 27>>),
  (7 :> <<0, 31>>) @@ (8 :> <<0, 32>>) @@ (9 :> <<0, 33>>),
  [t \in {0, 3, 4, 14, 58} |-> <<1, 16>>] @@ (6 :> <<0, 4>>),
  [t \in {0, 3, 4, 14, 58} |-> <<1, 16>>] @@ (6 :> <<0, 4>>),
  (1 :> <<1, 12>>),
  (2 :> <<1, 100>>) @@ (6 :> <<0, 37>>),
  [t \in {0, 3, 4, 14, 58} |-> <<1, 16>>] @@ (6 :> <<0, 4>>),
  (5 :> <<0, 39>>),
  (1 :> <<0, 40>>),
  [t \in {1, 11} |-> <<1, 19>>],
  [t \in {1, 11} |-> <<1, 20>>],
  [t \in {1, 11} |-> <<1, 21>>],
  (14 :> <<1, 10>>),
  (14 :> <<1, 10>>),
  (2 :> <<0, 43>>),
  (2 :> <<1, 99>>),
  (14 :> <<1, 10>>),
  (7 :> <<0, 31>>) @@ (8 :> <<0, 32>>) @@ (9 :> <<0, 33>>),
  [t \in {0, 3, 4, 14, 58} |-> <<1, 18>>] @@ (2 :> <<0, 47>>),
  (14 :> <<0, 49>>),
  (14 :> <<0, 49>>),
  (5 :> <<0, 51>>),
  (14 :> <<0, 49>>),
  (1 :> <<1, 14>>),
  [t \in {0, 3, 4, 14, 58} |-> <<1, 15>>],
  (5 :> <<0, 53>>),
  (1 :> <<0, 54>>),
  (2 :> <<0, 68>>) @@ (12 :> <<0, 57>>) @@ [t \in {15, 20} |-> <<1, 28>>] @@ (17 :> <<0, 59>>) @@ (19 :> <<0, 60>>) @@ (21 :> <<0, 61>>) @@ (22 :> <<0, 63>>) @@ (25 :> <<0, 64>>) @@ (29 :> <<0, 65>>) @@ (30 :> <<0, 66>>) @@ (31 :> <<0, 67>>) @@ (32 :> <<0, 69>>) @@ (33 :> <<0, 70>>),
  (1 :> <<0, 71>>),
  (7 :> <<0, 31>>) @@ (8 :> <<0, 32>>) @@ (9 :> <<0, 33>>),
  (1 :> <<0, 73>>),
  (7 :> <<0, 31>>) @@ (8 :> <<0, 32>>) @@ (9 :> <<0, 33>>),
  [t \in {0, 3, 4, 58} |-> <<1, 7>>],
  (15 :> <<0, 75>>),
  (2 :> <<0, 68>>) @@ (12 :> <<0, 57>>) @@ [t \in {15, 20} |-> <<1, 28>>] @@ (17 :> <<0, 59>>) @@ (19 :> <<0, 60>>) @@ (21 :> <<0, 61>>) @@ (22 :> <<0, 63>>) @@ (25 :> <<0, 64>>) @@ (29 :> <<0, 65>>) @@ (30 :> <<0, 66>>) @@ (31 :> <<0, 67>>) @@ (32 :> <<0, 69>>) @@ (33 :> <<0, 70>>),
  (2 :> <<0, 94>>) @@ (10 :> <<0, 95>>) @@ (27 :> <<0, 90>>) @@ (45 :> <<0, 87>>) @@ (46 :> <<0, 88>>) @@ (51 :> <<0, 86>>) @@ (52 :> <<0, 91>>) @@ (53 :> <<0, 92>>) @@ (54 :> <<0, 93>>) @@ (56 :> <<0, 96>>) @@ (57 :> <<0, 97>>),
  [t \in {2, 12, 15, 17, 19, 20, 21, 22, 25, 29, 30, 31, 32, 33} |-> <<1, 31>>],
  [t \in {2, 10, 12, 14, 15, 17, 19, 20, 21, 22, 25, 27, 29, 30, 31, 32, 33, 45, 46, 51, 52, 53, 54, 56, 57} |-> <<1, 36>>],
  [t \in {2, 10, 12, 14, 15, 17, 19, 20, 21, 22, 25, 27, 29, 30, 31, 32, 33, 45, 46, 51, 52, 53, 54, 56, 57} |-> <<1, 36>>],
  [t \in {2, 10, 12, 14, 15, 17, 19, 20, 21, 22, 25, 27, 29, 30, 31, 32, 33, 45, 46, 51, 52, 53, 54, 56, 57} |-> <<1, 36>>],
  (18 :> <<0, 101>>),
  (2 :> <<0, 102>>),
  (2 :> <<0, 94>>) @@ (10 :> <<0, 95>>) @@ (27 :> <<0, 90>>) @@ (45 :> <<0, 87>>) @@ (46 :> <<0, 88>>) @@ (51 :> <<0, 86>>) @@ (52 :> <<0, 91>>) @@ (53 :> <<0, 92>>) @@ (54 :> <<0, 93>>) @@ (56 :> <<0, 96>>) @@ (57 :> <<0, 97>>),
  [t \in {1, 11, 13, 18, 24, 26, 35, 36, 37, 38, 39, 40, 41, 42, 43, 44, 45, 46, 47, 48, 49, 50, 55} |-> <<1, 56>>] @@ (10 :> <<0, 106>>),
  [t \in {1, 11, 13, 18, 24, 26, 35, 36, 37, 38, 39, 40, 41, 42, 43, 44, 45, 46, 47, 48, 49, 50, 55} |-> <<1, 56>>] @@ (10 :> <<0, 106>>),
  (10 :> <<0, 108>>),
  [t \in {1, 11, 13, 18, 24, 26, 35, 36, 37, 38, 39, 40, 41, 42, 43, 44, 45, 46, 47, 48, 49, 50, 55} |-> <<1, 56>>] @@ (10 :> <<0, 106>>) @@ (23 :> <<0, 109>>),
  (1 :> <<1, 64>>) @@ (2 :> <<0, 94>>) @@ (10 :> <<0, 95>>) @@ (27 :> <<0, 90>>) @@ (45 :> <<0, 87>>) @@ (46 :> <<0, 88>>) @@ (51 :> <<0, 86>>) @@ (52 :> <<0, 91>>) @@ (53 :> <<0, 92>>) @@ (54 :> <<0, 93>>) @@ (56 :> <<0, 96>>) @@ (57 :> <<0, 97>>),
  (34 :> <<0, 113>>),
  [t \in {0, 3, 4, 58} |-> <<1, 11>>],
  (1 :> <<0, 115>>) @@ (11 :> <<1, 25>>),
  [t \in {0, 3, 4, 58} |-> <<1, 13>>],
  (1 :> <<0, 116>>),
  (1 :> <<1, 26>>),
  [t \in {15, 20} |-> <<1, 27>>],
  (13 :> <<0, 117>>),
  [t \in {13, 18} |-> <<1, 30>>] @@ (36 :> <<0, 118>>) @@ (37 :> <<0, 119>>),
  (16 :> <<0, 120>>),
  [t \in {1, 11, 13, 18, 24, 26, 35, 36, 37} |-> <<1, 67>>] @@ (38 :> <<0, 121>>),
  [t \in {1, 11, 13, 18, 24, 26, 35, 36, 37, 38} |-> <<1, 69>>] @@ (39 :> <<0, 122>>) @@ (40 :> <<0, 123>>) @@ (41 :> <<0, 124>>) @@ (42 :> <<0, 125>>) @@ (43 :> <<0, 126>>) @@ (44 :> <<0, 127>>),
  [t \in {1, 11, 13, 18, 24, 26, 35, 36, 37, 38, 39, 40, 41, 42, 43, 44} |-> <<1, 76>>] @@ (45 :> <<0, 128>>) @@ (46 :> <<0, 129>>),
  [t \in {1, 11, 13, 18, 24, 26, 35, 36, 37, 38, 39, 40, 41, 42, 43, 44, 45, 46} |-> <<1, 79>>] @@ (47 :> <<0, 130>>) @@ (48 :> <<0, 131>>) @@ (49 :> <<0, 132>>),
  [t \in {1, 11, 13, 18, 24, 26, 35, 36, 37, 38, 39, 40, 41, 42, 43, 44, 45, 46, 47, 48, 49} |-> <<1, 83>>] @@ (50 :> <<0, 133>>),
  [t \in {1, 11, 13, 18, 24, 26, 35, 36, 37, 38, 39, 40, 41, 42, 43, 44, 45, 46, 47, 48, 49, 50} |-> <<1, 85>>],
  (2 :> <<0, 94>>) @@ (10 :> <<0, 95>>) @@ (27 :> <<0, 90>>) @@ (45 :> <<0, 87>>) @@ (46 :> <<0, 88>>) @@ (51 :> <<0, 86>>) @@ (52 :> <<0, 91>>) @@ (53 :> <<0, 92>>) @@ (54 :> <<0, 93>>) @@ (56 :> <<0, 96>>) @@ (57 :> <<0, 97>>),
  (2 :> <<0, 94>>) @@ (10 :> <<0, 95>>) @@ (27 :> <<0, 90>>) @@ (45 :> <<0, 87>>) @@ (46 :> <<0, 88>>) @@ (51 :> <<0, 86>>) @@ (52 :> <<0, 91>>) @@ (53 :> <<0, 92>>) @@ (54 :> <<0, 93>>) @@ (56 :> <<0, 96>>) @@ (57 :> <<0, 97>>),
  (2 :> <<0, 94>>) @@ (10 :> <<0, 95>>) @@ (27 :> <<0, 90>>) @@ (45 :> <<0, 87>>) @@ (46 :> <<0, 88>>) @@ (51 :> <<0, 86>>) @@ (52 :> <<0, 91>>) @@ (53 :> <<0, 92>>) @@ (54 :> <<0, 93>>) @@ (56 :> <<0, 96>>) @@ (57 :> <<0, 97>>),
  [t \in {1, 11, 13, 18, 24, 26, 35, 36, 37, 38, 39, 40, 41, 42, 43, 44, 45, 46, 47, 48, 49, 50} |-> <<1, 89>>] @@ (55 :> <<0, 137>>),
  [t \in {1, 11, 13, 18, 24, 26, 35, 36, 37, 38, 39, 40, 41, 42, 43, 44, 45, 46, 47, 48, 49, 50, 55} |-> <<1, 90>>],
  [t \in {1, 11, 13, 18, 24, 26, 35, 36, 37, 38, 39, 40, 41, 42, 43, 44, 45, 46, 47, 48, 49, 50, 55} |-> <<1, 91>>],
  [t \in {1, 11, 13, 18, 24, 26, 35, 36, 37, 38, 39, 40, 41, 42, 43, 44, 45, 46, 47, 48, 49, 50, 55} |-> <<1, 92>>],
  [t \in {1, 11, 13, 18, 24, 26, 35, 36, 37, 38, 39, 40, 41, 42, 43, 44, 45, 46, 47, 48, 49, 50, 55} |-> <<1, 93>>],
  [t \in {1, 11, 13, 18, 24, 26, 35, 36, 37, 38, 39, 40, 41, 42, 43, 44, 45, 46, 47, 48, 49, 50, 55} |-> <<1, 56>>] @@ (10 :> <<0, 106>>),
  (2 :> <<0, 94>>) @@ (10 :> <<0, 95>>) @@ (27 :> <<0, 90>>) @@ (45 :> <<0, 87>>) @@ (46 :> <<0, 88>>) @@ (51 :> <<0, 86>>) @@ (52 :> <<0, 91>>) @@ (53 :> <<0, 92>>) @@ (54 :> <<0, 93>>) @@ (56 :> <<0, 96>>) @@ (57 :> <<0, 97>>),
  (10 :> <<0, 140>>),
  (10 :> <<0, 141>>),
  (2 :> <<0, 94>>) @@ (10 :> <<0, 95>>) @@ (27 :> <<0, 90>>) @@ (45 :> <<0, 87>>) @@ (46 :> <<0, 88>>) @@ (51 :> <<0, 86>>) @@ (52 :> <<0, 91>>) @@ (53 :> <<0, 92>>) @@ (54 :> <<0, 93>>) @@ (56 :> <<0, 96>>) @@ (57 :> <<0, 97>>),
  (2 :> <<0, 68>>) @@ (12 :> <<0, 57>>) @@ [t \in {15, 20} |-> <<1, 28>>] @@ (17 :> <<0, 59>>) @@ (19 :> <<0, 60>>) @@ (21 :> <<0, 61>>) @@ (22 :> <<0, 63>>) @@ (25 :> <<0, 64>>) @@ (29 :> <<0, 65>>) @@ (30 :> <<0, 66>>) @@ (31 :> <<0, 67>>) @@ (32 :> <<0, 69>>) @@ (33 :> <<0, 70>>),
  (2 :> <<0, 68>>) @@ (12 :> <<0, 57>>) @@ [t \in {15, 20} |-> <<1, 28>>] @@ (17 :> <<0, 59>>) @@ (19 :> <<0, 60>>) @@ (21 :> <<0, 61>>) @@ (22 :> <<0, 63>>) @@ (25 :> <<0, 64>>) @@ (29 :> <<0, 65>>) @@ (30 :> <<0, 66>>) @@ (31 :> <<0, 67>>) @@ (32 :> <<0, 69>>) @@ (33 :> <<0, 70>>),
  (14 :> <<0, 49>>),
  (23 :> <<0, 146>>),
  (26 :> <<0, 147>>),
  (26 :> <<1, 42>>) @@ (36 :> <<0, 118>>) @@ (37 :> <<0, 119>>),
  (1 :> <<0, 148>>),
  (2 :> <<0, 94>>) @@ (10 :> <<0, 95>>) @@ (27 :> <<0, 90>>) @@ (45 :> <<0, 87>>) @@ (46 :> <<0, 88>>) @@ (51 :> <<0, 86>>) @@ (52 :> <<0, 91>>) @@ (53 :> <<0, 92>>) @@ (54 :> <<0, 93>>) @@ (56 :> <<0, 96>>) @@ (57 :> <<0, 97>>),
  (1 :> <<0, 151>>),
  (2 :> <<0, 153>>),
  (2 :> <<0, 94>>) @@ (10 :> <<0, 95>>) @@ (27 :> <<0, 90>>) @@ (45 :> <<0, 87>>) @@ (46 :> <<0, 88>>) @@ (51 :> <<0, 86>>) @@ (52 :> <<0, 91>>) @@ (53 :> <<0, 92>>) @@ (54 :> <<0, 93>>) @@ (56 :> <<0, 96>>) @@ (57 :> <<0, 97>>),
  (1 :> <<0, 155>>),
  (1 :> <<0, 156>>),
  (1 :> <<1, 63>>) @@ (36 :> <<0, 118>>) @@ (37 :> <<0, 119>>),
  (2 :> <<0, 94>>) @@ (10 :> <<0, 95>>) @@ (27 :> <<0, 90>>) @@ (45 :> <<0, 87>>) @@ (46 :> <<0, 88>>) @@ (51 :> <<0, 86>>) @@ (52 :> <<0, 91>>) @@ (53 :> <<0, 92>>) @@ (54 :> <<0, 93>>) @@ (56 :> <<0, 96>>) @@ (57 :> <<0, 97>>),
  (11 :> <<0, 158>>),
  (2 :> <<1, 100>>) @@ (6 :> <<0, 37>>),
  [t \in {0, 3, 4, 14, 58} |-> <<1, 18>>] @@ (2 :> <<0, 47>>),
  (2 :> <<0, 68>>) @@ (14 :> <<0, 49>>) @@ (29 :> <<0, 65>>) @@ (30 :> <<0, 66>>) @@ (31 :> <<0, 67>>) @@ (32 :> <<0, 69>>) @@ (33 :> <<0, 70>>),
  (2 :> <<0, 94>>) @@ (10 :> <<0, 95>>) @@ (27 :> <<0, 90>>) @@ (45 :> <<0, 87>>) @@ (46 :> <<0, 88>>) @@ (51 :> <<0, 86>>) @@ (52 :> <<0, 91>>) @@ (53 :> <<0, 92>>) @@ (54 :> <<0, 93>>) @@ (56 :> <<0, 96>>) @@ (57 :> <<0, 97>>),
  (2 :> <<0, 94>>) @@ (10 :> <<0, 95>>) @@ (27 :> <<0, 90>>) @@ (45 :> <<0, 87>>) @@ (46 :> <<0, 88>>) @@ (51 :> <<0, 86>>) @@ (52 :> <<0, 91>>) @@ (53 :> <<0, 92>>) @@ (54 :> <<0, 93>>) @@ (56 :> <<0, 96>>) @@ (57 :> <<0, 97>>),
  (14 :> <<0, 49>>),
  (2 :> <<0, 94>>) @@ (10 :> <<0, 95>>) @@ (27 :> <<0, 90>>) @@ (45 :> <<0, 87>>) @@ (46 :> <<0, 88>>) @@ (51 :> <<0, 86>>) @@ (52 :> <<0, 91>>) @@ (53 :> <<0, 92>>) @@ (54 :> <<0, 93>>) @@ (56 :> <<0, 96>>) @@ (57 :> <<0, 97>>),
  (2 :> <<0, 94>>) @@ (10 :> <<0, 95>>) @@ (27 :> <<0, 90>>) @@ (45 :> <<0, 87>>) @@ (46 :> <<0, 88>>) @@ (51 :> <<0, 86>>) @@ (52 :> <<0, 91>>) @@ (53 :> <<0, 92>>) @@ (54 :> <<0, 93>>) @@ (56 :> <<0, 96>>) @@ (57 :> <<0, 97>>),
  (2 :> <<0, 94>>) @@ (10 :> <<0, 95>>) @@ (27 :> <<0, 90>>) @@ (45 :> <<0, 87>>) @@ (46 :> <<0, 88>>) @@ (51 :> <<0, 86>>) @@ (52 :> <<0, 91>>) @@ (53 :> <<0, 92>>) @@ (54 :> <<0, 93>>) @@ (56 :> <<0, 96>>) @@ (57 :> <<0, 97>>),
  (2 :> <<0, 94>>) @@ (10 :> <<0, 95>>) @@ (27 :> <<0, 90>>) @@ (45 :> <<0, 87>>) @@ (46 :> <<0, 88>>) @@ (51 :> <<0, 86>>) @@ (52 :> <<0, 91>>) @@ (53 :> <<0, 92>>) @@ (54 :> <<0, 93>>) @@ (56 :> <<0, 96>>) @@ (57 :> <<0, 97>>),
  (2 :> <<0, 94>>) @@ (10 :> <<0, 95>>) @@ (27 :> <<0, 90>>) @@ (45 :> <<0, 87>>) @@ (46 :> <<0, 88>>) @@ (51 :> <<0, 86>>) @@ (52 :> <<0, 91>>) @@ (53 :> <<0, 92>>) @@ (54 :> <<0, 93>>) @@ (56 :> <<0, 96>>) @@ (57 :> <<0, 97>>),
  (2 :> <<0, 94>>) @@ (10 :> <<0, 95>>) @@ (27 :> <<0, 90>>) @@ (45 :> <<0, 87>>) @@ (46 :> <<0, 88>>) @@ (51 :> <<0, 86>>) @@ (52 :> <<0, 91>>) @@ (53 :> <<0, 92>>) @@ (54 :> <<0, 93>>) @@ (56 :> <<0, 96>>) @@ (57 :> <<0, 97>>),
  (2 :> <<0, 94>>) @@ (10 :> <<0, 95>>) @@ (27 :> <<0, 90>>) @@ (45 :> <<0, 87>>) @@ (46 :> <<0, 88>>) @@ (51 :> <<0, 86>>) @@ (52 :> <<0, 91>>) @@ (53 :> <<0, 92>>) @@ (54 :> <<0, 93>>) @@ (56 :> <<0, 96>>) @@ (57 :> <<0, 97>>),
  (2 :> <<0, 94>>) @@ (10 :> <<0, 95>>) @@ (27 :> <<0, 90>>) @@ (45 :> <<0, 87>>) @@ (46 :> <<0, 88>>) @@ (51 :> <<0, 86>>) @@ (52 :> <<0, 91>>) @@ (53 :> <<0, 92>>) @@ (54 :> <<0, 93>>) @@ (56 :> <<0, 96>>) @@ (57 :> <<0, 97>>),
  (2 :> <<0, 94>>) @@ (10 :> <<0, 95>>) @@ (27 :> <<0, 90>>) @@ (45 :> <<0, 87>>) @@ (46 :> <<0, 88>>) @@ (51 :> <<0, 86>>) @@ (52 :> <<0, 91>>) @@ (53 :> <<0, 92>>) @@ (54 :> <<0, 93>>) @@ (56 :> <<0, 96>>) @@ (57 :> <<0, 97>>),
  (2 :> <<0, 94>>) @@ (10 :> <<0, 95>>) @@ (27 :> <<0, 90>>) @@ (45 :> <<0, 87>>) @@ (46 :> <<0, 88>>) @@ (51 :> <<0, 86>>) @@ (52 :> <<0, 91>>) @@ (53 :> <<0, 92>>) @@ (54 :> <<0, 93>>) @@ (56 :> <<0, 96>>) @@ (57 :> <<0, 97>>),
  (2 :> <<0, 94>>) @@ (10 :> <<0, 95>>) @@ (27 :> <<0, 90>>) @@ (45 :> <<0, 87>>) @@ (46 :> <<0, 88>>) @@ (51 :> <<0, 86>>) @@ (52 :> <<0, 91>>) @@ (53 :> <<0, 92>>) @@ (54 :> <<0, 93>>) @@ (56 :> <<0, 96>>) @@ (57 :> <<0, 97>>),
  (2 :> <<0, 94>>) @@ (10 :> <<0, 95>>) @@ (27 :> <<0, 90>>) @@ (45 :> <<0, 87>>) @@ (46 :> <<0, 88>>) @@ (51 :> <<0, 86>>) @@ (52 :> <<0, 91>>) @@ (53 :> <<0, 92>>) @@ (54 :> <<0, 93>>) @@ (56 :> <<0, 96>>) @@ (57 :> <<0, 97>>),
  (2 :> <<0, 94>>) @@ (10 :> <<0, 95>>) @@ (27 :> <<0, 90>>) @@ (45 :> <<0, 87>>) @@ (46 :> <<0, 88>>) @@ (51 :> <<0, 86>>) @@ (52 :> <<0, 91>>) @@ (53 :> <<0, 92>>) @@ (54 :> <<0, 93>>) @@ (56 :> <<0, 96>>) @@ (57 :> <<0, 97>>),
  [t \in {1, 11, 13, 18, 24, 26, 35, 36, 37, 38, 39, 40, 41, 42, 43, 44, 45, 46, 47, 48, 49, 50} |-> <<1, 86>>],
  [t \in {1, 11, 13, 18, 24, 26, 35, 36, 37, 38, 39, 40, 41, 42, 43, 44, 45, 46, 47, 48, 49, 50} |-> <<1, 87>>],
  [t \in {1, 11, 13, 18, 24, 26, 35, 36, 37, 38, 39, 40, 41, 42, 43, 44, 45, 46, 47, 48, 49, 50} |-> <<1, 88>>],
  (10 :> <<0, 179>>),
  [t \in {1, 11, 13, 18, 24, 26, 35, 36, 37, 38, 39, 40, 41, 42, 43, 44, 45, 46, 47, 48, 49, 50, 55} |-> <<1, 94>>],
  (11 :> <<0, 180>>) @@ (36 :> <<0, 118>>) @@ (37 :> <<0, 119>>),
  (2 :> <<0, 94>>) @@ (10 :> <<0, 95>>) @@ (27 :> <<0, 90>>) @@ (45 :> <<0, 87>>) @@ (46 :> <<0, 88>>) @@ (51 :> <<0, 86>>) @@ (52 :> <<0, 91>>) @@ (53 :> <<0, 92>>) @@ (54 :> <<0, 93>>) @@ (56 :> <<0, 96>>) @@ (57 :> <<0, 97>>),
  (2 :> <<0, 94>>) @@ (10 :> <<0, 95>>) @@ (27 :> <<0, 90>>) @@ (45 :> <<0, 87>>) @@ (46 :> <<0, 88>>) @@ (51 :> <<0, 86>>) @@ (52 :> <<0, 91>>) @@ (53 :> <<0, 92>>) @@ (54 :> <<0, 93>>) @@ (56 :> <<0, 96>>) @@ (57 :> <<0, 97>>),
  (18 :> <<0, 183>>),
  (20 :> <<0, 184>>),
  (15 :> <<0, 185>>),
  (1 :> <<0, 186>>),
  (2 :> <<0, 94>>) @@ (10 :> <<0, 95>>) @@ (27 :> <<0, 90>>) @@ (45 :> <<0, 87>>) @@ (46 :> <<0, 88>>) @@ (51 :> <<0, 86>>) @@ (52 :> <<0, 91>>) @@ (53 :> <<0, 92>>) @@ (54 :> <<0, 93>>) @@ (56 :> <<0, 96>>) @@ (57 :> <<0, 97>>),
  [t \in {15, 27, 28} |-> <<1, 45>>],
  [t \in {2, 12, 15, 17, 19, 20, 21, 22, 25, 29, 30, 31, 32, 33} |-> <<1, 48>>],
  (11 :> <<0, 189>>),
  (11 :> <<1, 59>>) @@ (35 :> <<0, 191>>) @@ (36 :> <<0, 118>>) @@ (37 :> <<0, 119>>),
  [t \in {2, 12, 15, 17, 19, 20, 21, 22, 25, 29, 30, 31, 32, 33} |-> <<1, 49>>],
  (11 :> <<0, 192>>),
  (11 :> <<1, 62>>) @@ (35 :> <<0, 194>>),
  (1 :> <<0, 195>>) @@ (36 :> <<0, 118>>) @@ (37 :> <<0, 119>>),
  [t \in {2, 12, 15, 17, 19, 20, 21, 22, 25, 29, 30, 31, 32, 33} |-> <<1, 52>>],
  [t \in {2, 12, 15, 17, 19, 20, 21, 22, 25, 29, 30, 31, 32, 33} |-> <<1, 53>>],
  (1 :> <<0, 196>>) @@ (36 :> <<0, 118>>) @@ (37 :> <<0, 119>>),
  [t \in {1, 5} |-> <<1, 22>>],
  (2 :> <<0, 197>>),
  [t \in {0, 3, 4, 14, 58} |-> <<1, 17>>],
  [t \in {2, 12, 15, 17, 19, 20, 21, 22, 25, 29, 30, 31, 32, 33} |-> <<1, 29>>],
  (1 :> <<0, 198>>),
  [t \in {1, 11, 13, 18, 24, 26, 35, 36, 37} |-> <<1, 65>>] @@ (38 :> <<0, 121>>),
  [t \in {1, 11, 13, 18, 24, 26, 35, 36, 37} |-> <<1, 66>>] @@ (38 :> <<0, 121>>),
  (1 :> <<0, 199>>),
  [t \in {1, 11, 13, 18, 24, 26, 35, 36, 37, 38} |-> <<1, 68>>] @@ (39 :> <<0, 122>>) @@ (40 :> <<0, 123>>) @@ (41 :> <<0, 124>>) @@ (42 :> <<0, 125>>) @@ (43 :> <<0, 126>>) @@ (44 :> <<0, 127>>),
  [t \in {1, 11, 13, 18, 24, 26, 35, 36, 37, 38, 39, 40, 41, 42, 43, 44} |-> <<1, 70>>] @@ (45 :> <<0, 128>>) @@ (46 :> <<0, 129>>),
  [t \in {1, 11, 13, 18, 24, 26, 35, 36, 37, 38, 39, 40, 41, 42, 43, 44} |-> <<1, 71>>] @@ (45 :> <<0, 128>>) @@ (46 :> <<0, 129>>),
  [t \in {1, 11, 13, 18, 24, 26, 35, 36, 37, 38, 39, 40, 41, 42, 43, 44} |-> <<1, 72>>] @@ (45 :> <<0, 128>>) @@ (46 :> <<0, 129>>),
  [t \in {1, 11, 13, 18, 24, 26, 35, 36, 37, 38, 39, 40, 41, 42, 43, 44} |-> <<1, 73>>] @@ (45 :> <<0, 128>>) @@ (46 :> <<0, 129>>),
  [t \in {1, 11, 13, 18, 24, 26, 35, 36, 37, 38, 39, 40, 41, 42, 43, 44} |-> <<1, 74>>] @@ (45 :> <<0, 128>>) @@ (46 :> <<0, 129>>),
  [t \in {1, 11, 13, 18, 24, 26, 35, 36, 37, 38, 39, 40, 41, 42, 43, 44} |-> <<1, 75>>] @@ (45 :> <<0, 128>>) @@ (46 :> <<0, 129>>),
  [t \in {1, 11, 13, 18, 24, 26, 35, 36, 37, 38, 39, 40, 41, 42, 43, 44, 45, 46} |-> <<1, 77>>] @@ (47 :> <<0, 130>>) @@ (48 :> <<0, 131>>) @@ (49 :> <<0, 132>>),
  [t \in {1, 11, 13, 18, 24, 26, 35, 36, 37, 38, 39, 40, 41, 42, 43, 44, 45, 46} |-> <<1, 78>>] @@ (47 :> <<0, 130>>) @@ (48 :> <<0, 131>>) @@ (49 :> <<0, 132>>),
  [t \in {1, 11, 13, 18, 24, 26, 35, 36, 37, 38, 39, 40, 41, 42, 43, 44, 45, 46, 47, 48, 49} |-> <<1, 80>>] @@ (50 :> <<0, 133>>),
  [t \in {1, 11, 13, 18, 24, 26, 35, 36, 37, 38, 39, 40, 41, 42, 43, 44, 45, 46, 47, 48, 49} |-> <<1, 81>>] @@ (50 :> <<0, 133>>),
  [t \in {1, 11, 13, 18, 24, 26, 35, 36, 37, 38, 39, 40, 41, 42, 43, 44, 45, 46, 47, 48, 49} |-> <<1, 82>>] @@ (50 :> <<0, 133>>),
  [t \in {1, 11, 13, 18, 24, 26, 35, 36, 37, 38, 39, 40, 41, 42, 43, 44, 45, 46, 47, 48, 49, 50} |-> <<1, 84>>],
  (2 :> <<0, 94>>) @@ (10 :> <<0, 95>>) @@ (27 :> <<0, 90>>) @@ (45 :> <<0, 87>>) @@ (46 :> <<0, 88>>) @@ (51 :> <<0, 86>>) @@ (52 :> <<0, 91>>) @@ (53 :> <<0, 92>>) @@ (54 :> <<0, 93>>) @@ (56 :> <<0, 96>>) @@ (57 :> <<0, 97>>),
  [t \in {1, 11, 13, 18, 24, 26, 35, 36, 37, 38, 39, 40, 41, 42, 43, 44, 45, 46, 47, 48, 49, 50, 55} |-> <<1, 95>>],
  (11 :> <<0, 201>>),
  (11 :> <<0, 202>>),
  (14 :> <<0, 49>>),
  (2 :> <<0, 94>>) @@ (10 :> <<0, 95>>) @@ (27 :> <<0, 90>>) @@ (45 :> <<0, 87>>) @@ (46 :> <<0, 88>>) @@ (51 :> <<0, 86>>) @@ (52 :> <<0, 91>>) @@ (53 :> <<0, 92>>) @@ (54 :> <<0, 93>>) @@ (56 :> <<0, 96>>) @@ (57 :> <<0, 97>>),
  (1 :> <<0, 205>>),
  [t \in {2, 12, 15, 17, 19, 20, 21, 22, 25, 29, 30, 31, 32, 33} |-> <<1, 39>>],
  (24 :> <<0, 206>>) @@ (36 :> <<0, 118>>) @@ (37 :> <<0, 119>>),
  (15 :> <<1, 47>>) @@ (27 :> <<0, 209>>) @@ (28 :> <<0, 210>>),
  [t \in {1, 11, 13, 18, 24, 26, 35, 36, 37, 38, 39, 40, 41, 42, 43, 44, 45, 46, 47, 48, 49, 50, 55} |-> <<1, 55>>],
  (11 :> <<1, 57>>),
  (2 :> <<0, 94>>) @@ (10 :> <<0, 95>>) @@ (27 :> <<0, 90>>) @@ (45 :> <<0, 87>>) @@ (46 :> <<0, 88>>) @@ (51 :> <<0, 86>>) @@ (52 :> <<0, 91>>) @@ (53 :> <<0, 92>>) @@ (54 :> <<0, 93>>) @@ (56 :> <<0, 96>>) @@ (57 :> <<0, 97>>),
  (1 :> <<0, 212>>),
  (11 :> <<1, 60>>),
  (2 :> <<0, 213>>),
  [t \in {2, 12, 15, 17, 19, 20, 21, 22, 25, 29, 30, 31, 32, 33} |-> <<1, 51>>],
  [t \in {2, 12, 15, 17, 19, 20, 21, 22, 25, 29, 30, 31, 32, 33} |-> <<1, 54>>],
  (5 :> <<0, 214>>),
  [t \in {2, 12, 15, 17, 19, 20, 21, 22, 25, 29, 30, 31, 32, 33} |-> <<1, 32>>] @@ (16 :> <<1, 34>>),
  [t \in {2, 12, 15, 17, 19, 20, 21, 22, 25, 29, 30, 31, 32, 33} |-> <<1, 33>>],
  (11 :> <<0, 215>>),
  [t \in {1, 11, 13, 18, 24, 26, 35, 36, 37, 38, 39, 40, 41, 42, 43, 44, 45, 46, 47, 48, 49, 50, 55} |-> <<1, 97>>],
  [t \in {1, 11, 13, 18, 24, 26, 35, 36, 37, 38, 39, 40, 41, 42, 43, 44, 45, 46, 47, 48, 49, 50, 55} |-> <<1, 98>>],
  (1 :> <<0, 216>>),
  (1 :> <<0, 217>>) @@ (36 :> <<0, 118>>) @@ (37 :> <<0, 119>>),
  [t \in {2, 12, 15, 17, 19, 20, 21, 22, 25, 29, 30, 31, 32, 33} |-> <<1, 38>>],
  (2 :> <<0, 94>>) @@ (10 :> <<0, 95>>) @@ (27 :> <<0, 90>>) @@ (45 :> <<0, 87>>) @@ (46 :> <<0, 88>>) @@ (51 :> <<0, 86>>) @@ (52 :> <<0, 91>>) @@ (53 :> <<0, 92>>) @@ (54 :> <<0, 93>>) @@ (56 :> <<0, 96>>) @@ (57 :> <<0, 97>>),
  (15 :> <<0, 219>>),
  (5 :> <<0, 220>>),
  (5 :> <<1, 44>>),
  (5 :> <<0, 221>>),
  (11 :> <<1, 59>>) @@ (35 :> <<0, 191>>) @@ (36 :> <<0, 118>>) @@ (37 :> <<0, 119>>),
  [t \in {2, 12, 15, 17, 19, 20, 21, 22, 25, 29, 30, 31, 32, 33} |-> <<1, 50>>],
  (11 :> <<1, 62>>) @@ (35 :> <<0, 194>>),
  (7 :> <<0, 31>>) @@ (8 :> <<0, 32>>) @@ (9 :> <<0, 33>>),
  [t \in {1, 11, 13, 18, 24, 26, 35, 36, 37, 38, 39, 40, 41, 42, 43, 44, 45, 46, 47, 48, 49, 50, 55} |-> <<1, 96>>],
  [t \in {2, 12, 15, 17, 19, 20, 21, 22, 25, 29, 30, 31, 32, 33} |-> <<1, 35>>],
  [t \in {2, 12, 15, 17, 19, 20, 21, 22, 25, 29, 30, 31, 32, 33} |-> <<1, 37>>],
  (18 :> <<1, 40>>) @@ (36 :> <<0, 118>>) @@ (37 :> <<0, 119>>),
  (1 :> <<0, 225>>),
  (14 :> <<0, 49>>),
  [t \in {2, 10, 12, 14, 15, 17, 19, 20, 21, 22, 25, 27, 29, 30, 31, 32, 33, 45, 46, 51, 52, 53, 54, 56, 57} |-> <<1, 36>>],
  (11 :> <<1, 58>>),
  (11 :> <<1, 61>>),
  (1 :> <<0, 115>>) @@ (11 :> <<1, 25>>),
  [t \in {2, 12, 15, 17, 19, 20, 21, 22, 25, 29, 30, 31, 32, 33} |-> <<1, 41>>],
  (1 :> <<0, 229>>),
  (14 :> <<0, 49>>),
  (11 :> <<1, 24>>),
  [t \in {15, 27, 28} |-> <<1, 43>>],
  (1 :> <<0, 231>>),
  (15 :> <<1, 46>>)
>>

\* GOTO table: row s+1 is state s, keyed by non-terminal id.
gotoTable == <<
  (60 :> 1) @@ (61 :> 2),
  [t \in {} |-> <<0, 0>>],
  (71 :> 3),
  (62 :> 5) @@ (63 :> 6) @@ (67 :> 8) @@ (69 :> 7),
  [t \in {} |-> <<0, 0>>],
  [t \in {} |-> <<0, 0>>],
  (62 :> 13) @@ (63 :> 6) @@ (67 :> 8) @@ (69 :> 7),
  (62 :> 14) @@ (63 :> 6) @@ (67 :> 8) @@ (69 :> 7),
  (62 :> 15) @@ (63 :> 6) @@ (67 :> 8) @@ (69 :> 7),
  (64 :> 16) @@ (65 :> 17),
  (65 :> 20) @@ (68 :> 19),
  (65 :> 22) @@ (70 :> 21),
  [t \in {} |-> <<0, 0>>],
  [t \in {} |-> <<0, 0>>],
  [t \in {} |-> <<0, 0>>],
  [t \in {} |-> <<0, 0>>],
  [t \in {} |-> <<0, 0>>],
  [t \in {} |-> <<0, 0>>],
  [t \in {} |-> <<0, 0>>],
  [t \in {} |-> <<0, 0>>],
  (74 :> 26),
  [t \in {} |-> <<0, 0>>],
  (74 :> 29),
  (73 :> 30),
  (71 :> 34),
  (71 :> 35),
  [t \in {} |-> <<0, 0>>],
  (102 :> 36),
  (71 :> 38),
  [t \in {} |-> <<0, 0>>],
  [t \in {} |-> <<0, 0>>],
  [t \in {} |-> <<0, 0>>],
  [t \in {} |-> <<0, 0>>],
  [t \in {} |-> <<0, 0>>],
  (66 :> 41),
  (66 :> 42),
  [t \in {} |-> <<0, 0>>],
  [t \in {} |-> <<0, 0>>],
  (66 :> 44),
  (73 :> 45),
  (72 :> 46),
  (76 :> 48),
  (76 :> 50),
  [t \in {} |-> <<0, 0>>],
  (76 :> 52),
  [t \in {} |-> <<0, 0>>],
  [t \in {} |-> <<0, 0>>],
  [t \in {} |-> <<0, 0>>],
  [t \in {} |-> <<0, 0>>],
  (77 :> 55) @@ (78 :> 56) @@ (82 :> 62) @@ (87 :> 58),
  [t \in {} |-> <<0, 0>>],
  (73 :> 72),
  [t \in {} |-> <<0, 0>>],
  (73 :> 74),
  [t \in {} |-> <<0, 0>>],
  [t \in {} |-> <<0, 0>>],
  (77 :> 76) @@ (78 :> 56) @@ (82 :> 62) @@ (87 :> 58),
  (79 :> 77) @@ (80 :> 79) @@ (94 :> 78) @@ (95 :> 80) @@ (96 :> 81) @@ (97 :> 82) @@ (98 :> 83) @@ (99 :> 84) @@ (100 :> 85) @@ (101 :> 89),
  [t \in {} |-> <<0, 0>>],
  (81 :> 98),
  (81 :> 99),
  (81 :> 100),
  [t \in {} |-> <<0, 0>>],
  [t \in {} |-> <<0, 0>>],
  (83 :> 103) @@ (94 :> 104) @@ (95 :> 80) @@ (96 :> 81) @@ (97 :> 82) @@ (98 :> 83) @@ (99 :> 84) @@ (100 :> 85) @@ (101 :> 89),
  (88 :> 105),
  (88 :> 107),
  [t \in {} |-> <<0, 0>>],
  (88 :> 110),
  (93 :> 111) @@ (94 :> 112) @@ (95 :> 80) @@ (96 :> 81) @@ (97 :> 82) @@ (98 :> 83) @@ (99 :> 84) @@ (100 :> 85) @@ (101 :> 89),
  [t \in {} |-> <<0, 0>>],
  [t \in {} |-> <<0, 0>>],
  (75 :> 114),
  [t \in {} |-> <<0, 0>>],
  [t \in {} |-> <<0, 0>>],
  [t \in {} |-> <<0, 0>>],
  [t \in {} |-> <<0, 0>>],
  [t \in {} |-> <<0, 0>>],
  [t \in {} |-> <<0, 0>>],
  [t \in {} |-> <<0, 0>>],
  [t \in {} |-> <<0, 0>>],
  [t \in {} |-> <<0, 0>>],
  [t \in {} |-> <<0, 0>>],
  [t \in {} |-> <<0, 0>>],
  [t \in {} |-> <<0, 0>>],
  [t \in {} |-> <<0, 0>>],
  (100 :> 134) @@ (101 :> 89),
  (100 :> 135) @@ (101 :> 89),
  (100 :> 136) @@ (101 :> 89),
  [t \in {} |-> <<0, 0>>],
  [t \in {} |-> <<0, 0>>],
  [t \in {} |-> <<0, 0>>],
  [t \in {} |-> <<0, 0>>],
  [t \in {} |-> <<0, 0>>],
  (88 :> 138),
  (94 :> 139) @@ (95 :> 80) @@ (96 :> 81) @@ (97 :> 82) @@ (98 :> 83) @@ (99 :> 84) @@ (100 :> 85) @@ (101 :> 89),
  [t \in {} |-> <<0, 0>>],
  [t \in {} |-> <<0, 0>>],
  (79 :> 142) @@ (94 :> 78) @@ (95 :> 80) @@ (96 :> 81) @@ (97 :> 82) @@ (98 :> 83) @@ (99 :> 84) @@ (100 :> 85) @@ (101 :> 89),
  (77 :> 143) @@ (78 :> 56) @@ (82 :> 62) @@ (87 :> 58),
  (77 :> 144) @@ (78 :> 56) @@ (82 :> 62) @@ (87 :> 58),
  (76 :> 145),
  [t \in {} |-> <<0, 0>>],
  [t \in {} |-> <<0, 0>>],
  [t \in {} |-> <<0, 0>>],
  [t \in {} |-> <<0, 0>>],
  (89 :> 149) @@ (94 :> 150) @@ (95 :> 80) @@ (96 :> 81) @@ (97 :> 82) @@ (98 :> 83) @@ (99 :> 84) @@ (100 :> 85) @@ (101 :> 89),
  [t \in {} |-> <<0, 0>>],
  (91 :> 152),
  (94 :> 154) @@ (95 :> 80) @@ (96 :> 81) @@ (97 :> 82) @@ (98 :> 83) @@ (99 :> 84) @@ (100 :> 85) @@ (101 :> 89),
  [t \in {} |-> <<0, 0>>],
  [t \in {} |-> <<0, 0>>],
  [t \in {} |-> <<0, 0>>],
  (94 :> 157) @@ (95 :> 80) @@ (96 :> 81) @@ (97 :> 82) @@ (98 :> 83) @@ (99 :> 84) @@ (100 :> 85) @@ (101 :> 89),
  [t \in {} |-> <<0, 0>>],
  (102 :> 159),
  (72 :> 160),
  (76 :> 162) @@ (87 :> 161),
  (95 :> 163) @@ (96 :> 81) @@ (97 :> 82) @@ (98 :> 83) @@ (99 :> 84) @@ (100 :> 85) @@ (101 :> 89),
  (95 :> 164) @@ (96 :> 81) @@ (97 :> 82) @@ (98 :> 83) @@ (99 :> 84) @@ (100 :> 85) @@ (101 :> 89),
  (76 :> 165),
  (96 :> 166) @@ (97 :> 82) @@ (98 :> 83) @@ (99 :> 84) @@ (100 :> 85) @@ (101 :> 89),
  (97 :> 167) @@ (98 :> 83) @@ (99 :> 84) @@ (100 :> 85) @@ (101 :> 89),
  (97 :> 168) @@ (98 :> 83) @@ (99 :> 84) @@ (100 :> 85) @@ (101 :> 89),
  (97 :> 169) @@ (98 :> 83) @@ (99 :> 84) @@ (100 :> 85) @@ (101 :> 89),
  (97 :> 170) @@ (98 :> 83) @@ (99 :> 84) @@ (100 :> 85) @@ (101 :> 89),
  (97 :> 171) @@ (98 :> 83) @@ (99 :> 84) @@ (100 :> 85) @@ (101 :> 89),
  (97 :> 172) @@ (98 :> 83) @@ (99 :> 84) @@ (100 :> 85) @@ (101 :> 89),
  (98 :> 173) @@ (99 :> 84) @@ (100 :> 85) @@ (101 :> 89),
  (98 :> 174) @@ (99 :> 84) @@ (100 :> 85) @@ (101 :> 89),
  (99 :> 175) @@ (100 :> 85) @@ (101 :> 89),
  (99 :> 176) @@ (100 :> 85) @@ (101 :> 89),
  (99 :> 177) @@ (100 :> 85) @@ (101 :> 89),
  (100 :> 178) @@ (101 :> 89),
  [t \in {} |-> <<0, 0>>],
  [t \in {} |-> <<0, 0>>],
  [t \in {} |-> <<0, 0>>],
  [t \in {} |-> <<0, 0>>],
  [t \in {} |-> <<0, 0>>],
  [t \in {} |-> <<0, 0>>],
  (89 :> 181) @@ (94 :> 150) @@ (95 :> 80) @@ (96 :> 81) @@ (97 :> 82) @@ (98 :> 83) @@ (99 :> 84) @@ (100 :> 85) @@ (101 :> 89),
  (89 :> 182) @@ (94 :> 150) @@ (95 :> 80) @@ (96 :> 81) @@ (97 :> 82) @@ (98 :> 83) @@ (99 :> 84) @@ (100 :> 85) @@ (101 :> 89),
  [t \in {} |-> <<0, 0>>],
  [t \in {} |-> <<0, 0>>],
  [t \in {} |-> <<0, 0>>],
  [t \in {} |-> <<0, 0>>],
  (94 :> 187) @@ (95 :> 80) @@ (96 :> 81) @@ (97 :> 82) @@ (98 :> 83) @@ (99 :> 84) @@ (100 :> 85) @@ (101 :> 89),
  (84 :> 188),
  [t \in {} |-> <<0, 0>>],
  [t \in {} |-> <<0, 0>>],
  (90 :> 190),
  [t \in {} |-> <<0, 0>>],
  [t \in {} |-> <<0, 0>>],
  (92 :> 193),
  [t \in {} |-> <<0, 0>>],
  [t \in {} |-> <<0, 0>>],
  [t \in {} |-> <<0, 0>>],
  [t \in {} |-> <<0, 0>>],
  [t \in {} |-> <<0, 0>>],
  [t \in {} |-> <<0, 0>>],
  [t \in {} |-> <<0, 0>>],
  [t \in {} |-> <<0, 0>>],
  [t \in {} |-> <<0, 0>>],
  [t \in {} |-> <<0, 0>>],
  [t \in {} |-> <<0, 0>>],
  [t \in {} |-> <<0, 0>>],
  [t \in {} |-> <<0, 0>>],
  [t \in {} |-> <<0, 0>>],
  [t \in {} |-> <<0, 0>>],
  [t \in {} |-> <<0, 0>>],
  [t \in {} |-> <<0, 0>>],
  [t \in {} |-> <<0, 0>>],
  [t \in {} |-> <<0, 0>>],
  [t \in {} |-> <<0, 0>>],
  [t \in {} |-> <<0, 0>>],
  [t \in {} |-> <<0, 0>>],
  [t \in {} |-> <<0, 0>>],
  [t \in {} |-> <<0, 0>>],
  [t \in {} |-> <<0, 0>>],
  (89 :> 200) @@ (94 :> 150) @@ (95 :> 80) @@ (96 :> 81) @@ (97 :> 82) @@ (98 :> 83) @@ (99 :> 84) @@ (100 :> 85) @@ (101 :> 89),
  [t \in {} |-> <<0, 0>>],
  [t \in {} |-> <<0, 0>>],
  [t \in {} |-> <<0, 0>>],
  (76 :> 203),
  (94 :> 204) @@ (95 :> 80) @@ (96 :> 81) @@ (97 :> 82) @@ (98 :> 83) @@ (99 :> 84) @@ (100 :> 85) @@ (101 :> 89),
  [t \in {} |-> <<0, 0>>],
  [t \in {} |-> <<0, 0>>],
  [t \in {} |-> <<0, 0>>],
  (85 :> 208) @@ (86 :> 207),
  [t \in {} |-> <<0, 0>>],
  [t \in {} |-> <<0, 0>>],
  (94 :> 211) @@ (95 :> 80) @@ (96 :> 81) @@ (97 :> 82) @@ (98 :> 83) @@ (99 :> 84) @@ (100 :> 85) @@ (101 :> 89),
  [t \in {} |-> <<0, 0>>],
  [t \in {} |-> <<0, 0>>],
  [t \in {} |-> <<0, 0>>],
  [t \in {} |-> <<0, 0>>],
  [t \in {} |-> <<0, 0>>],
  [t \in {} |-> <<0, 0>>],
  [t \in {} |-> <<0, 0>>],
  [t \in {} |-> <<0, 0>>],
  [t \in {} |-> <<0, 0>>],
  [t \in {} |-> <<0, 0>>],
  [t \in {} |-> <<0, 0>>],
  [t \in {} |-> <<0, 0>>],
  [t \in {} |-> <<0, 0>>],
  [t \in {} |-> <<0, 0>>],
  (94 :> 218) @@ (95 :> 80) @@ (96 :> 81) @@ (97 :> 82) @@ (98 :> 83) @@ (99 :> 84) @@ (100 :> 85) @@ (101 :> 89),
  [t \in {} |-> <<0, 0>>],
  [t \in {} |-> <<0, 0>>],
  [t \in {} |-> <<0, 0>>],
  [t \in {} |-> <<0, 0>>],
  (90 :> 222),
  [t \in {} |-> <<0, 0>>],
  (92 :> 223),
  (73 :> 224),
  [t \in {} |-> <<0, 0>>],
  [t \in {} |-> <<0, 0>>],
  [t \in {} |-> <<0, 0>>],
  [t \in {} |-> <<0, 0>>],
  [t \in {} |-> <<0, 0>>],
  (76 :> 226),
  (81 :> 227),
  [t \in {} |-> <<0, 0>>],
  [t \in {} |-> <<0, 0>>],
  (75 :> 228),
  [t \in {} |-> <<0, 0>>],
  [t \in {} |-> <<0, 0>>],
  (76 :> 230),
  [t \in {} |-> <<0, 0>>],
  [t \in {} |-> <<0, 0>>],
  [t \in {} |-> <<0, 0>>],
  [t \in {} |-> <<0, 0>>]
>>

----------------------------------------------------------------------------
\* Parser.

SHIFT == 0
REDUCTION == 1
ACCEPTED == 2
NUM_TERMINALS == 59

tokenTypeToId ==
  "PROGRAM" :> 0 @@ "SEMICOLON" :> 1 @@ "IDENTIFIER" :> 2 @@ "PROCEDURE" :> 3 @@
  "FUNCTION" :> 4 @@ "COLON" :> 5 @@ "VAR" :> 6 @@ "BOOLEAN" :> 7 @@ "INTEGER" :> 8 @@
  "STRING" :> 9 @@ "LPAREN" :> 10 @@ "RPAREN" :> 11 @@ "IF" :> 12 @@ "THEN" :> 13 @@
  "BEGIN" :> 14 @@ "END" :> 15 @@ "ELSE" :> 16 @@ "WHILE" :> 17 @@ "DO" :> 18 @@
  "REPEAT" :> 19 @@ "UNTIL" :> 20 @@ "LOOP" :> 21 @@ "FOR" :> 22 @@ "ASSIGN" :> 23 @@
  "TO" :> 24 @@ "CASE" :> 25 @@ "OF" :> 26 @@ "INTEGER_LITERAL" :> 27 @@
  "OTHERWISE" :> 28 @@ "WRITE" :> 29 @@ "WRITELN" :> 30 @@ "READ" :> 31 @@
  "RETURN" :> 32 @@ "EXIT" :> 33 @@ "WHEN" :> 34 @@ "COMMA" :> 35 @@ "OR" :> 36 @@
  "XOR" :> 37 @@ "AND" :> 38 @@ "EQUAL" :> 39 @@ "NOT_EQUAL" :> 40 @@
  "GREATER_THAN" :> 41 @@ "GREATER_EQUAL" :> 42 @@ "LESS_THAN" :> 43 @@
  "LESS_EQUAL" :> 44 @@ "PLUS" :> 45 @@ "MINUS" :> 46 @@ "MULTIPLY" :> 47 @@
  "DIVIDE" :> 48 @@ "MOD" :> 49 @@ "POWER" :> 50 @@ "NOT" :> 51 @@
  "STRING_LITERAL" :> 52 @@ "TRUE" :> 53 @@ "FALSE" :> 54 @@ "IN" :> 55 @@
  "MAX" :> 56 @@ "MIN" :> 57 @@ "EOF" :> 58

idToTokenType == [id \in 0..(NUM_TERMINALS - 1) |->
                    CHOOSE t \in DOMAIN tokenTypeToId : tokenTypeToId[t] = id]

getTokenId(tokenType) ==
  IF tokenType \in DOMAIN tokenTypeToId THEN tokenTypeToId[tokenType] ELSE 58

\* loadProductionsFromRules: productions[0] is the augmented start.
productions ==
  [i \in 0..Len(rules) |->
     IF i = 0 THEN [lhs |-> -1, rhsLength |-> 0]
     ELSE [lhs |-> nonTerminalNameToId[rules[i].lhs],
           rhsLength |-> IF rules[i].rhs = <<"Lambda">> THEN 0 ELSE Len(rules[i].rhs)]]

\* actionTable.has / gotoTable.has on the key of (state, id).
hasAction(state, tokenId) ==
  state + 1 \in DOMAIN actionTable /\ tokenId \in DOMAIN actionTable[state + 1]
hasGoto(state, lhs) ==
  state + 1 \in DOMAIN gotoTable /\ lhs \in DOMAIN gotoTable[state + 1]

\* new Parser(lexer, symbolTable).  pc is the position of parse(): before
\* its first token, in its loop, or returned; result is what it returned.
ParserInit ==
  [pc |-> "start", token |-> NullToken, stateStack |-> <<0>>,
   semanticStack |-> <<NewAttributes>>, errors |-> <<>>, result |-> "none"]

Top(stack) == stack[Len(stack)]

\* The attributes pushed with a shifted token.  Token has no length or
\* fullLength field, so both are undefined.
shiftAttributes(token) ==
  LET attr == [NewAttributes EXCEPT !.line = token.line, !.column = token.column,
                 !.llength = NoNum, !.fullLength = NoNum, !.position = token.position]
  IN CASE token.type = "IDENTIFIER" ->
            [attr EXCEPT !.type = <<token.type>>, !.symbol = token.symbol]
       [] token.type = "INTEGER_LITERAL" ->
            [attr EXCEPT !.type = <<token.type>>, !.val = parseInt(token.lexeme)]
       [] token.type = "STRING_LITERAL" ->
            [attr EXCEPT !.type = <<token.type>>, !.lex = token.lexeme]
       [] OTHER -> attr

\* The loop over the right-hand side before the pops: the span of the reduced
\* symbol, from its leftmost element (i = rhsLength) to its rightmost (i = 1).
RECURSIVE spanOfRhs(_, _, _)
spanOfRhs(semanticStack, i, span) ==
  IF i <= 0 THEN span
  ELSE LET idx == Len(semanticStack) - (i * 2)
           attr == semanticStack[idx + 1]
       IN spanOfRhs(semanticStack, i - 1,
            IF idx >= 0 /\ idx < Len(semanticStack)
            THEN IF span.firstPosition = -1 /\ attr.position # NoNum
                 THEN [firstPosition |-> attr.position,
                       firstLine |-> OrZero(attr.line),
                       firstColumn |-> OrZero(attr.column),
                       totalLength |-> OrZero(attr.llength),
                       totalFullLength |-> OrZero(attr.fullLength)]
                 ELSE IF attr.fullLength # NoNum
                 THEN [span EXCEPT !.totalLength = @ + attr.fullLength,
                                   !.totalFullLength = @ + attr.fullLength]
                 ELSE span
            ELSE span)

withSpan(resultAttributes, semanticStack, rhsLength) ==
  IF rhsLength > 0
  THEN LET span == spanOfRhs(semanticStack, rhsLength,
                     [firstPosition |-> -1, firstLine |-> -1, firstColumn |-> -1,
                      totalLength |-> 0, totalFullLength |-> 0])
           r1 == IF span.totalLength > 0 /\ Falsy(resultAttributes.llength)
                 THEN [resultAttributes EXCEPT !.llength = span.totalLength]
                 ELSE resultAttributes
           r2 == IF span.totalFullLength > 0 /\ Falsy(r1.fullLength)
                 THEN [r1 EXCEPT !.fullLength = span.totalFullLength]
                 ELSE r1
       IN IF span.firstPosition >= 0 /\ Falsy(r2.position)
          THEN [r2 EXCEPT !.position = span.firstPosition, !.line = span.firstLine,
                          !.column = span.firstColumn]
          ELSE r2
  ELSE resultAttributes

\* The first n elements of a stack: what n pops from a longer stack leave.
Pop(stack, n) == SubSeq(stack, 1, IF Len(stack) > n THEN Len(stack) - n ELSE 0)

SyntaxErrorRecord(msg, token, expectedTokens, len) ==
  [message |-> msg, line |-> token.line, column |-> token.column,
   position |-> token.position, expected |-> expectedTokens, found |-> token.type,
   length |-> len]

\* expectedFrom, but listing only the terminals that the state shifts.
RECURSIVE expectedFrom_ShiftsOnly(_, _)
expectedFrom_ShiftsOnly(state, i) ==
  IF i >= NUM_TERMINALS THEN <<>>
  ELSE (IF hasAction(state, i) /\ actionTable[state + 1][i][1] = SHIFT
        THEN <<idToTokenType[i]>> ELSE <<>>)
       \o expectedFrom_ShiftsOnly(state, i + 1)

\* The token types with an ACTION entry in `state`, in id order.
RECURSIVE expectedFrom(_, _)
expectedFrom(state, i) ==
  IF i >= NUM_TERMINALS THEN <<>>
  ELSE (IF hasAction(state, i) THEN <<idToTokenType[i]>> ELSE <<>>)
       \o expectedFrom(state, i + 1)

----------------------------------------------------------------------------
\* The analysis of one input: IntegratedAnalyzer builds the symbol table, the
\* lexer and the parser, then calls parse().

\* Lexemes of the inputs (code points of their text).
Lx(word) ==
  CASE word = "program" -> <<112, 114, 111, 103, 114, 97, 109>>
    [] word = "procedure" -> <<112, 114, 111, 99, 101, 100, 117, 114, 101>>
    [] word = "function" -> <<102, 117, 110, 99, 116, 105, 111, 110>>
    [] word = "var" -> <<118, 97, 114>>
    [] word = "VAR" -> <<86, 65, 82>>
    [] word = "integer" -> <<105, 110, 116, 101, 103, 101, 114>>
    [] word = "boolean" -> <<98, 111, 111, 108, 101, 97, 110>>
    [] word = "string" -> <<115, 116, 114, 105, 110, 103>>
    [] word = "begin" -> <<98, 101, 103, 105, 110>>
    [] word = "end" -> <<101, 110, 100>>
    [] word = "loop" -> <<108, 111, 111, 112>>
    [] word = "if" -> <<105, 102>>
    [] word = "then" -> <<116, 104, 101, 110>>
    [] word = "else" -> <<101, 108, 115, 101>>
    [] word = "while" -> <<119, 104, 105, 108, 101>>
    [] word = "do" -> <<100, 111>>
    [] word = "repeat" -> <<114, 101, 112, 101, 97, 116>>
    [] word = "until" -> <<117, 110, 116, 105, 108>>
    [] word = "for" -> <<102, 111, 114>>
    [] word = "to" -> <<116, 111>>
    [] word = "case" -> <<99, 97, 115, 101>>
    [] word = "of" -> <<111, 102>>
    [] word = "otherwise" -> <<111, 116, 104, 101, 114, 119, 105, 115, 101>>
    [] word = "write" -> <<119, 114, 105, 116, 101>>
    [] word = "writeln" -> <<119, 114, 105, 116, 101, 108, 110>>
    [] word = "read" -> <<114, 101, 97, 100>>
    [] word = "return" -> <<114, 101, 116, 117, 114, 110>>
    [] word = "exit" -> <<101, 120, 105, 116>>
    [] word = "when" -> <<119, 104, 101, 110>>
    [] word = "or" -> <<111, 114>>
    [] word = "xor" -> <<120, 111, 114>>
    [] word = "and" -> <<97, 110, 100>>
    [] word = "not" -> <<110, 111, 116>>
    [] word = "mod" -> <<109, 111, 100>>
    [] word = "true" -> <<116, 114, 117, 101>>
    [] word = "false" -> <<102, 97, 108, 115, 101>>
    [] word = "in" -> <<105, 110>>
    [] word = "max" -> <<109, 97, 120>>
    [] word = "min" -> <<109, 105, 110>>
    [] word = "P" -> <<80>>
    [] word = "Q" -> <<81>>
    [] word = "F" -> <<70>>
    [] word = "x" -> <<120>>
    [] word = "X" -> <<88>>
    [] word = "y" -> <<121>>
    [] word = "b" -> <<98>>
    [] word = "s" -> <<115>>
    [] word = "'a'" -> <<39, 97, 39>>
    [] word = "1" -> <<49>>
    [] word = "2" -> <<50>>
    [] word = "3" -> <<51>>
    [] word = ";" -> <<59>>
    [] word = ":" -> <<58>>
    [] word = ":=" -> <<58, 61>>
    [] word = "+" -> <<43>>
    [] word = "-" -> <<45>>
    [] word = "*" -> <<42>>
    [] word = "/" -> <<47>>
    [] word = "**" -> <<42, 42>>
    [] word = "=" -> <<61>>
    [] word = "<>" -> <<60, 62>>
    [] word = "<" -> <<60>>
    [] word = ">" -> <<62>>
    [] word = "<=" -> <<60, 61>>
    [] word = ">=" -> <<62, 61>>
    [] word = "(" -> <<40>>
    [] word = ")" -> <<41>>
    [] word = "," -> <<44>>

Lexemes(words) == [i \in DOMAIN words |-> Lx(words[i])]

\* Lexemes an input may hold past its fixed part.
Alphabet ==
  {Lx(w) : w \in {"program", "procedure", "function", "var", "integer", "begin",
                  "end", "P", "x", "X", ";", ":", ":=", "+", "2", "(", ")"}}

\* The inputs analysed: a fixed part and the number of lexemes after it.
Inputs ==
  { [source |-> <<>>, free |-> MaxFree],
    [source |-> Lexemes(<<"program", "P", ";", "var", "x", ":", "integer", ";",
                          "begin", "x", ":=", "2", "+", "3", ";", "end", ";">>),
     free |-> 0],
    [source |-> Lexemes(<<"program", "P", ";", "var", "x", ":", "integer", ";">>),
     free |-> MaxTail],
    [source |-> Lexemes(<<"program", "P", ";", "begin", "end", ";",
                          "procedure", "Q", "(", "x", ":", "integer", ")", ";">>),
     free |-> MaxTail],
    [source |-> Lexemes(<<"var", "x", ":", "integer", ";", "program", "P", ";",
                          "var", "X", ":", "string", ";", "begin">>),
     free |-> MaxTail],
    [source |-> Lexemes(<<"var", "x", ":", "integer", ";", "y", ":", "string", ";",
                          "program", "P", ";", "begin">>),
     free |-> MaxTail],
    [source |-> Lexemes(<<"function", "Q", ":", "integer", ";", "var", "x", ":",
                          "string", ";", "begin", "end", ";">>),
     free |-> MaxTail],
    [source |-> Lexemes(<<"program", "P", ";", "begin", "loop", "x", ":=", "1", ";",
                          "end", ";", "end", ";">>),
     free |-> 0] }

\* undefined, where findSymbolDefinition returns no definition.
NoDefinition == [position |-> NoNum, line |-> NoNum, column |-> NoNum, length |-> NoNum]

\* What a direct caller of a method passed and got back; none made yet.
NoCall ==
  [op |-> "none", name |-> <<>>, symbol |-> NoSymbol, found |-> NoSymbol,
   defined |-> FALSE, before |-> SymbolTableInit, token |-> NullToken,
   result |-> NoDefinition]

Init ==
  /\ symbolTable = SymbolTableInit
  /\ heap = <<>>
  /\ lexer = LexerInit(<<32>>)
  /\ parser = ParserInit
  /\ semanticActions = SemanticActionsInit
  /\ \E input \in Inputs : source = input.source /\ free = input.free
  /\ call = NoCall
  /\ slrData = "grammar"

\* The same analysis over a table file with arbitrary cells.
InitAnyTable ==
  /\ symbolTable = SymbolTableInit
  /\ heap = <<>>
  /\ lexer = LexerInit(<<32>>)
  /\ parser = ParserInit
  /\ semanticActions = SemanticActionsInit
  /\ source \in {Lexemes(<<"program", "P", ";">>), Lexemes(<<"var", "x", ":">>)}
  /\ free = 0
  /\ call = NoCall
  /\ slrData = "arbitrary"

\* The texts the next lexeme of the input can be; <<>> is the end of input.
NextTexts ==
  IF source # <<>> THEN {Head(source)}
  ELSE IF free > 0 THEN Alphabet \cup {<<>>}
  ELSE {<<>>}

\* ReadToken going on with the token it had when the lexer returns none.
ReadToken_GoOn(text, st, hp, parserAfter) ==
  \E revealed \in {IF text = <<>> THEN lexer
                    ELSE [lexer EXCEPT !.input = @ \o text \o <<32>>]} :
   \E r \in {getNextToken(revealed, st, hp)} :
     /\ lexer' = r.lexer
     /\ symbolTable' = r.symbolTable
     /\ heap' = r.heap
     /\ source' = IF source # <<>> THEN Tail(source) ELSE source
     /\ free' = IF source = <<>> /\ free > 0 THEN free - 1 ELSE free
     /\ parser' = IF r.token = NullToken
                  THEN [parserAfter EXCEPT !.pc = "loop"]
                  ELSE [parserAfter EXCEPT !.pc = "loop", !.token = r.token]

\* lexer.getNextToken() as called from parse().  The input is revealed as
\* the lexer reaches it: it starts with a blank and every lexeme is followed
\* by one, on which the automaton stops, so the lexer never reads a character
\* that is not revealed yet.
ReadToken(text, st, hp, parserAfter) ==
  \E revealed \in {IF text = <<>> THEN lexer
                    ELSE [lexer EXCEPT !.input = @ \o text \o <<32>>]} :
   \E r \in {getNextToken(revealed, st, hp)} :
     /\ lexer' = r.lexer
     /\ symbolTable' = r.symbolTable
     /\ heap' = r.heap
     /\ source' = IF source # <<>> THEN Tail(source) ELSE source
     /\ free' = IF source = <<>> /\ free > 0 THEN free - 1 ELSE free
     /\ parser' = IF r.token = NullToken
                  THEN [parserAfter EXCEPT !.pc = "done", !.result = "null"]
                  ELSE [parserAfter EXCEPT !.pc = "loop", !.token = r.token]

\* parse(), up to its loop: the first token.
ParseStart ==
  /\ parser.pc = "start"
  /\ \E text \in NextTexts : ReadToken(text, symbolTable, heap, parser)
  /\ UNCHANGED <<semanticActions, call, slrData>>

currentState == Top(parser.stateStack)
tokenId == getTokenId(parser.token.type)

\* Cells an arbitrary table may hold: shifts, reductions by productions of
\* several lengths and by a number that is no production, accept.
ArbitraryActions ==
  {<<SHIFT, 1>>, <<REDUCTION, 2>>, <<REDUCTION, 3>>, <<REDUCTION, 7>>,
   <<REDUCTION, 101>>, <<ACCEPTED, 0>>}
ArbitraryStates == {1}

\* actionTable.get(key): the possible values, none when it is undefined.
actionsAt(state, id) ==
  IF slrData = "grammar"
  THEN (IF hasAction(state, id) THEN {actionTable[state + 1][id]} ELSE {})
  ELSE ArbitraryActions
\* gotoTable.get(key), likewise; an empty stack has no top and so no entry.
gotosAt(states, lhs) ==
  IF states = <<>> THEN {}
  ELSE IF slrData = "grammar"
  THEN (IF hasGoto(Top(states), lhs) THEN {gotoTable[Top(states) + 1][lhs]} ELSE {})
  ELSE ArbitraryStates

\* No ACTION entry: one syntax error, parse() returns null.
SyntaxError ==
  /\ parser.pc = "loop"
  /\ (slrData = "arbitrary" \/ actionsAt(currentState, tokenId) = {})
  /\ \E expectedTokens \in (IF slrData = "grammar"
                           THEN {expectedFrom(currentState, 0)}
                           ELSE {<<>>, <<"EOF">>}) :
       parser' = [parser EXCEPT
          !.errors = Append(@, SyntaxErrorRecord(
             IF Len(expectedTokens) > 0 THEN "Syntax error: unexpected, expected one of"
             ELSE "Syntax error: unexpected",
             parser.token, expectedTokens, Len(parser.token.lexeme))),
          !.pc = "done", !.result = "null"]
  /\ UNCHANGED <<symbolTable, heap, lexer, semanticActions, source, free, call, slrData>>

\* The pushes of a shift on each stack.
shiftStates(stateStack, id, state) == stateStack \o <<id, state>>
shiftSemantic_NoPlaceholder(semanticStack, attr) == Append(semanticStack, attr)
shiftSemantic(semanticStack, attr) == semanticStack \o <<attr, NewAttributes>>

\* An arbitrary table can grow the stacks for ever; the model stops at MaxStack.
Shift ==
  /\ parser.pc = "loop"
  /\ slrData = "grammar" \/ Len(parser.stateStack) + 2 <= MaxStack
  /\ \E action \in actionsAt(currentState, tokenId) :
       /\ action[1] = SHIFT
       /\ \E text \in NextTexts :
            ReadToken(text, symbolTable, heap,
              [parser EXCEPT
                 !.stateStack = shiftStates(@, tokenId, action[2]),
                 !.semanticStack = shiftSemantic(@, shiftAttributes(parser.token))])
  /\ UNCHANGED <<semanticActions, call, slrData>>

\* The pops and pushes of a reduction on each stack.
reduceStates(stateStack, rhsLength) == Pop(stateStack, 2 * rhsLength)
reduceSemantic_PopOnce(semanticStack, rhsLength) == Pop(semanticStack, rhsLength)
reduceSemantic(semanticStack, rhsLength) == Pop(semanticStack, 2 * rhsLength)
gotoStates(states, lhs, newState) == states \o <<lhs, newState>>
gotoSemantic(attributes, resultAttributes) == attributes \o <<resultAttributes, NewAttributes>>

Reduce ==
  /\ parser.pc = "loop"
  /\ slrData = "grammar" \/ Len(parser.stateStack) + 2 <= MaxStack
  /\ \E action \in actionsAt(currentState, tokenId) :
       /\ action[1] = REDUCTION
       /\ IF action[2] \notin DOMAIN productions
          THEN /\ parser' = [parser EXCEPT
                     !.errors = Append(@, [message |-> "Invalid production number",
                                           line |-> parser.token.line,
                                           column |-> parser.token.column,
                                           position |-> parser.token.position]),
                     !.pc = "done", !.result = "null"]
               /\ UNCHANGED <<symbolTable, heap, lexer, semanticActions>>
          ELSE LET production == productions[action[2]]
                   r == executeAction(action[2],
                          World(symbolTable, heap, lexer, semanticActions),
                          parser.semanticStack)
                   resultAttributes == withSpan(r.res, parser.semanticStack,
                                                production.rhsLength)
                   states == reduceStates(parser.stateStack, production.rhsLength)
                   attributes == reduceSemantic(parser.semanticStack, production.rhsLength)
               IN /\ symbolTable' = r.world.symbolTable
                  /\ heap' = r.world.heap
                  /\ lexer' = r.world.lexer
                  /\ semanticActions' = r.world.semanticActions
                  /\ \/ \E newState \in gotosAt(states, production.lhs) :
                          parser' = [parser EXCEPT
                            !.stateStack = gotoStates(states, production.lhs, newState),
                            !.semanticStack = gotoSemantic(attributes, resultAttributes)]
                     \/ /\ (slrData = "arbitrary" \/ gotosAt(states, production.lhs) = {})
                        /\ parser' = [parser EXCEPT
                             !.stateStack = states,
                             !.semanticStack = attributes,
                             !.errors = Append(@, [message |-> "No GOTO entry",
                                                   line |-> parser.token.line,
                                                   column |-> parser.token.column,
                                                   position |-> parser.token.position]),
                             !.pc = "done", !.result = "null"]
  /\ UNCHANGED <<source, free, call, slrData>>

Accept ==
  /\ parser.pc = "loop"
  /\ \E action \in actionsAt(currentState, tokenId) : action[1] = ACCEPTED
  /\ parser' = [parser EXCEPT !.pc = "done", !.result = "node"]
  /\ UNCHANGED <<symbolTable, heap, lexer, semanticActions, source, free, call, slrData>>

Next == ParseStart \/ Shift \/ Reduce \/ SyntaxError \/ Accept

Spec == Init /\ [][Next]_vars

\* Every table file at once.
SpecAnyTable == (Init \/ InitAnyTable) /\ [][Next]_vars

----------------------------------------------------------------------------
\* The symbol table driven directly through its public methods, as the
\* language-server features and the tests use it.

\* Names a direct caller passes: text differing in case only, and other text.
Names == {<<120>>, <<88>>, <<121>>}

InitST ==
  /\ symbolTable = SymbolTableInit
  /\ heap = <<>>
  /\ lexer = LexerInit(<<>>)
  /\ parser = ParserInit
  /\ semanticActions = SemanticActionsInit
  /\ source = <<>>
  /\ free = 0
  /\ call = NoCall
  /\ slrData = "grammar"

CallEnterScope ==
  /\ Len(symbolTable.scopes) <= MaxScopes
  /\ \E scopeName \in {<<102>>, <<103>>} :
       /\ symbolTable' = enterScope(symbolTable, scopeName)
       /\ call' = [op |-> "enterScope", name |-> scopeName, symbol |-> NoSymbol,
                   found |-> NoSymbol, defined |-> FALSE, before |-> symbolTable, token |-> NullToken,
                result |-> NoDefinition]
  /\ UNCHANGED <<heap, lexer, parser, semanticActions, source, free, slrData>>

CallExitScope ==
  /\ symbolTable' = exitScope(symbolTable)
  /\ call' = [op |-> "exitScope", name |-> <<>>, symbol |-> NoSymbol,
              found |-> NoSymbol, defined |-> FALSE, before |-> symbolTable, token |-> NullToken,
                result |-> NoDefinition]
  /\ UNCHANGED <<heap, lexer, parser, semanticActions, source, free, slrData>>

\* define(symbol) with a Symbol object the caller has just built.
CallDefine ==
  /\ Len(heap) < MaxSymbols
  /\ \E symName \in Names :
       LET symbol == Len(heap) + 1
           hp == Append(heap, NewSymbol(symName, symName,
                    getCurrentScopeName(symbolTable), 0, 1, 0, Len(symName)))
           r == define(symbolTable, hp, symbol)
       IN /\ heap' = hp
          /\ symbolTable' = r.symbolTable
          /\ call' = [op |-> "define", name |-> symName, symbol |-> symbol,
                      found |-> NoSymbol, defined |-> r.returned,
                      before |-> symbolTable, token |-> NullToken,
                result |-> NoDefinition]
  /\ UNCHANGED <<lexer, parser, semanticActions, source, free, slrData>>

CallLookup ==
  /\ \E symName \in Names :
       call' = [op |-> "lookup", name |-> symName, symbol |-> NoSymbol,
                found |-> lookup(symbolTable, symName), defined |-> FALSE, before |-> symbolTable, token |-> NullToken,
                result |-> NoDefinition]
  /\ UNCHANGED <<symbolTable, heap, lexer, parser, semanticActions, source, free, slrData>>

CallLookupInCurrentScope ==
  /\ \E symName \in Names :
       call' = [op |-> "lookupInCurrentScope", name |-> symName, symbol |-> NoSymbol,
                found |-> lookupInCurrentScope(symbolTable, symName),
                defined |-> FALSE,
                before |-> symbolTable, token |-> NullToken,
                result |-> NoDefinition]
  /\ UNCHANGED <<symbolTable, heap, lexer, parser, semanticActions, source, free, slrData>>

NextST ==
  CallEnterScope \/ CallExitScope \/ CallDefine \/ CallLookup \/ CallLookupInCurrentScope

SpecST == InitST /\ [][NextST]_vars

----------------------------------------------------------------------------
\* The lexer driven directly: getNextToken() called again and again on a
\* complete input, as a client that only wants the tokens does.

\* Every text of at most MaxLen characters out of a letter, a blank, LF, CR,
\* the comment braces and the quote.
ShortTexts ==
  LET Chars == {97, 32, 10, 13, 123, 125, 39}
  IN UNION {[1..n -> Chars] : n \in 0..MaxLen}

\* Identifiers, string literals and integer literals around their limits,
\* alone, followed by more text and in pairs.
LongTexts ==
  LET Repeat(c, n) == [i \in 1..n |-> c]
      ids == {Repeat(97, n) : n \in (MaxIdLength - 1)..(MaxIdLength + 2)}
      strings == {<<39>> \o Repeat(97, n) \o <<39>> :
                    n \in (MaxStringCount - 2)..(MaxStringCount + 2)}
      literals == {numberToString(n) :
                     n \in {0, 7, MaxInt - 2, MaxInt - 1, MaxInt, MaxInt + 1,
                            10 * MaxInt, 99999}}
                  \cup {<<48>> \o numberToString(MaxInt - 1), <<48>> \o numberToString(MaxInt)}
  IN ids \cup strings \cup {t \o <<32, 98>> : t \in ids \cup strings}
         \cup {a \o <<32>> \o b : a, b \in ids}
         \cup literals \cup {a \o <<32>> \o b : a, b \in literals}

InitLexer ==
  /\ symbolTable = SymbolTableInit
  /\ heap = <<>>
  /\ \/ \E input \in ShortTexts :
          \/ lexer = setDeclarationZone(LexerInit(input), TRUE)
          \/ \E stop \in {<<1, 0>>, <<1, 2>>, <<2, 1>>} :
               lexer = setStopAt(setDeclarationZone(LexerInit(input), TRUE),
                                 stop[1], stop[2])
     \/ \E input \in LongTexts, zone \in BOOLEAN :
          lexer = setDeclarationZone(LexerInit(input), zone)
     \/ \E code \in 0..MaxCharCode :
          lexer = setDeclarationZone(LexerInit(<<code>>), TRUE)
  /\ parser = ParserInit
  /\ semanticActions = SemanticActionsInit
  /\ source = <<>>
  /\ free = 0
  /\ call = NoCall
  /\ slrData = "grammar"

\* One call of getNextToken(); the client stops at the EOF token.
CallGetNextToken ==
  /\ call.token.type # "EOF"
  /\ Len(lexer.errors) < MaxErrors
  /\ \E r \in {getNextToken(lexer, symbolTable, heap)} :
        /\ lexer' = r.lexer
        /\ symbolTable' = r.symbolTable
        /\ heap' = r.heap
        /\ call' = [NoCall EXCEPT !.op = "getNextToken", !.before = symbolTable,
                                  !.token = r.token]
  /\ UNCHANGED <<parser, semanticActions, source, free, slrData>>

SpecLexer == InitLexer /\ [][CallGetNextToken]_vars

----------------------------------------------------------------------------
\* Go to definition: DefinitionProvider.findDefinition builds an analyzer
\* for the text of the document and calls findSymbolDefinition with the
\* cursor, which arms the stop point, parses, and looks the last token up.

\* A source is a sequence of pieces of text.  The role of a piece tells
\* what the language makes of it: the definition of a symbol, a use of the
\* symbol of that name, the token at which a full analysis records its
\* first error, or other text.
DefSources ==
  LET Piece(chars, role, name) == [chars |-> chars, role |-> role, name |-> name]
      T(w) == Piece(Lx(w), "text", "")
      Def(w, n) == Piece(Lx(w), "definition", n)
      Use(w, n) == Piece(Lx(w), "use", n)
      Err(w) == Piece(Lx(w), "error", "")
      Sp == Piece(<<32>>, "text", "")
      Head1(e) == <<T("program"), Sp, T("P"), T(";"), Piece(e, "text", ""),
                    T("var"), Sp, Def("x", "x"), T(":"), T("integer"), T(";"),
                    Piece(e, "text", ""), T("begin"), Sp>>
      Tail1 == <<T(";"), Sp, T("end"), T(";")>>
  IN UNION {
       { Head1(e) \o <<Use("x", "x"), T(":="), Use("x", "x"), T("+"), T("2")>> \o Tail1,
         <<T("var"), Sp, Def("x", "gx"), T(":"), T("integer"), T(";"), Piece(e, "text", ""),
           T("procedure"), Sp, T("Q"), T(";"), Piece(e, "text", ""),
           T("var"), Sp, Def("x", "lx"), T(":"), T("string"), T(";"), Sp,
           Def("y", "y"), T(":"), T("integer"), T(";"), Piece(e, "text", ""),
           T("begin"), Sp, Use("y", "y"), T(":="), Use("x", "lx"), T(";"), Sp,
           T("end"), T(";"), Piece(e, "text", ""),
           T("program"), Sp, T("P"), T(";"), Piece(e, "text", ""),
           T("begin"), Sp, Use("X", "gx"), T(":="), T("2")>> \o Tail1,
         Head1(e) \o <<Use("x", "x"), T(":="), Err("y"), T(";"), Sp,
                        Use("x", "x"), T(":="), T("2")>> \o Tail1,
         Head1(e) \o <<Use("x", "x"), T(":="), T("2"), Sp,
                        Err("x"), T(":="), T("3")>> \o Tail1 }
       : e \in {<<32>>, <<10>>, <<13>>, <<13, 10>>} }

\* The text of the first n pieces of a source.
RECURSIVE TextOfPieces(_, _)
TextOfPieces(pieces, n) ==
  IF n = 0 THEN <<>> ELSE TextOfPieces(pieces, n - 1) \o pieces[n].chars

\* The LSP position (0-based line and character) of the offset p of a text,
\* as the client computes it: a line ends at LF, CR or CRLF.
PositionAt(text, p) ==
  LET before == SubSeq(text, 1, p)
      breaks == {i \in 1..p : text[i] = 10 \/ text[i] = 13}
      pairs == {i \in breaks : text[i] = 10 /\ i > 1 /\ text[i - 1] = 13}
      lineStart == IF breaks = {} THEN 0 ELSE CHOOSE i \in breaks : \A j \in breaks : j <= i
  IN [line |-> Cardinality(breaks) - Cardinality(pairs), character |-> p - lineStart]

\* Offsets a cursor can be at: anywhere but between the CR and the LF of a CRLF.
Cursors(text) ==
  {p \in 0..Len(text) : ~(p > 0 /\ p < Len(text) /\ text[p] = 13 /\ text[p + 1] = 10)}

\* new IntegratedAnalyzer(text) and the setStopAt of findSymbolDefinition,
\* called with position.line + 1 and position.character.
InitDef ==
  /\ symbolTable = SymbolTableInit
  /\ heap = <<>>
  /\ \E pieces \in DefSources :
       LET text == TextOfPieces(pieces, Len(pieces))
       IN \E p \in Cursors(text) :
            lexer = setStopAt(LexerInit(text), PositionAt(text, p).line + 1,
                              PositionAt(text, p).character)
  /\ parser = ParserInit
  /\ semanticActions = SemanticActionsInit
  /\ source = <<>>
  /\ free = 0
  /\ call = NoCall
  /\ slrData = "grammar"

\* findSymbolDefinition once parse() has returned.
FindSymbolDefinition ==
  /\ parser.pc = "done"
  /\ call.op = "none"
  /\ LET lastToken == lexer.lastToken
         symbol == lookup(symbolTable, lastToken.lexeme)
         result ==
           IF Len(lexer.errors) > 0 \/ Len(parser.errors) > 0 THEN NoDefinition
           ELSE IF lastToken = NullToken \/ lastToken.type # "IDENTIFIER" THEN NoDefinition
           ELSE IF symbol = NoSymbol THEN NoDefinition
           ELSE IF \/ heap[symbol].position = NoNum
                   \/ heap[symbol].line = NoNum
                   \/ heap[symbol].column = NoNum
           THEN NoDefinition
           ELSE [position |-> heap[symbol].position,
                 line |-> heap[symbol].line,
                 column |-> heap[symbol].column,
                 length |-> IF heap[symbol].length \notin {NoNum, 0}
                            THEN heap[symbol].length
                            ELSE Len(lastToken.lexeme)]
     IN call' = [NoCall EXCEPT !.op = "findSymbolDefinition", !.result = result]
  /\ UNCHANGED <<symbolTable, heap, lexer, parser, semanticActions, source, free, slrData>>

NextDef == Next \/ FindSymbolDefinition

SpecDef == InitDef /\ [][NextDef]_vars

----------------------------------------------------------------------------
\* The analysis of whole programs that exercise the semantic actions.

InitSem ==
  LET Main(declarations, body) ==
        Lexemes(<<"program", "P", ";">>) \o declarations
          \o Lexemes(<<"begin">>) \o body \o Lexemes(<<"end", ";">>)
      Vars == Lexemes(<<"var", "x", ":", "integer", ";", "b", ":", "boolean", ";",
                        "s", ":", "string", ";">>)
      CallsOfMain ==
        {Main(Vars, Lexemes(body)) :
           body \in {<<"P", ";">>, <<"P", "(", "1", ")", ";">>,
                     <<"x", ":=", "P", ";">>, <<"x", ":=", "P", "(", "1", ")", ";">>,
                     <<"s", ":=", "P", ";">>, <<"write", "(", "P", ")", ";">>}}
      ForHeaders ==
        {Main(Vars, Lexemes(<<"for", id, ":=", e1, "to", e2, "do", "begin", "end", ";">>)) :
           id \in {"x", "b", "s"}, e1 \in {"1", "true", "x"}, e2 \in {"2", "'a'", "b"}}
      ReadStatements ==
        {Main(Vars, Lexemes(<<"read", "(">> \o list \o <<")", ";">>)) :
           list \in {<<v>> : v \in {"x", "b", "s"}}
                      \cup {<<v, ",", w>> : v, w \in {"x", "b", "s"}}
                      \cup {<<v, ",", w, ",", "b">> : v, w \in {"x", "s"}}
                      \cup {<<"b", ",", v, ",", w>> : v, w \in {"x", "s"}}
                      \cup {<<"s", ",", v, ",", w>> : v, w \in {"x", "s"}}}
      MaxMin ==
        {Main(Vars, Lexemes(<<"x", ":=", f, "(">> \o list \o <<")", ";">>)) :
           f \in {"max", "min"},
           list \in {<<e>> : e \in {"1", "true", "'a'", "x"}}
                      \cup {<<d, ",", e>> : d, e \in {"1", "true", "'a'", "b", "s"}}}
      Headers ==
        LET T == {"integer", "boolean", "string"}
            One == {<<"(", "y", ":", t, ")">> : t \in T}
                     \cup {<<"(", "var", "y", ":", t, ")">> : t \in T}
            Two == {<<"(", "var", "y", ":", "integer", ";", "x", ":", "boolean", ")">>,
                    <<"(", "y", ":", "string", ";", "var", "x", ":", "integer", ")">>,
                    <<"(", "var", "y", ":", "boolean", ";", "var", "x", ":", "string", ")">>}
            Rest == <<";", "begin", "end", ";", "program", "P", ";", "begin", "end", ";">>
        IN {Lexemes(<<"procedure", "Q">> \o a \o Rest) : a \in {<<>>} \cup One \cup Two}
             \cup {Lexemes(<<"function", "F">> \o a \o <<":", t>> \o Rest) :
                     a \in {<<>>} \cup Two, t \in T}
             \cup {Lexemes(<<"procedure", "Q">> \o a \o <<";", "begin", "end", ";",
                               "function", "F">> \o a \o <<":", "integer">> \o Rest) :
                     a \in One}
      Cascades ==
        LET Subprograms ==
              Lexemes(<<"function", "F", "(", "y", ":", "integer", ")", ":", "integer", ";",
                        "begin", "return", "1", ";", "end", ";",
                        "procedure", "Q", "(", "y", ":", "integer", ")", ";",
                        "begin", "end", ";">>)
            Wrong == <<"(", "1", "+", "true", ")">>
            Operators == {"or", "xor", "and", "=", "<>", ">", ">=", "<", "<=",
                          "+", "-", "*", "/", "mod", "**"}
        IN {Subprograms \o Main(Vars, Lexemes(body)) :
              body \in {<<"x", ":=">> \o Wrong \o <<op, "1", ";">> : op \in Operators}
                \cup {<<"x", ":=", "1", op>> \o Wrong \o <<";">> : op \in {"or", "=", "+", "-", "**"}}
                \cup {<<"x", ":=", op>> \o Wrong \o <<";">> : op \in {"not", "+", "-"}}
                \cup {<<"x", ":=">> \o Wrong \o <<";">>,
                      <<"if">> \o Wrong \o <<"then", "x", ":=", "1", ";">>,
                      <<"if">> \o Wrong \o <<"then", "begin", "end", ";">>,
                      <<"if">> \o Wrong \o <<"then", "begin", "end", ";", "else", "begin", "end", ";">>,
                      <<"while">> \o Wrong \o <<"do", "begin", "end", ";">>,
                      <<"repeat", "until">> \o Wrong \o <<";">>,
                      <<"loop", "exit", "when">> \o Wrong \o <<";", "end", ";">>,
                      <<"Q">> \o Wrong \o <<";">>,
                      <<"Q", "(", "1", "+", "true", ")", ";">>,
                      <<"x", ":=", "F", "(", "1", "+", "true", ")", ";">>,
                      <<"x", ":=", "F", "(", "1", ")", ";">>,
                      <<"Q", "(", "true", ")", ";">>}}
      Loops ==
        LET Exit == <<"exit", "when", "true", ";">>
            Inner == <<"loop">> \o Exit \o <<"end", ";">>
        IN {Main(Vars, Lexemes(<<"loop">> \o body \o <<"end", ";">>)) :
              body \in {[i \in 1..(4 * n) |-> Exit[((i - 1) % 4) + 1]] : n \in 0..MaxExits}
                \cup {Inner, Inner \o Exit, Exit \o Inner \o Exit,
                        <<"if", "b", "then">> \o Exit,
                        <<"x", ":=", "1", ";">> \o Exit \o <<"x", ":=", "2", ";">>,
                        <<"while", "b", "do", "begin">> \o Exit \o <<"end", ";">>,
                        <<"x", ":=", "1", ";">>}}
      ExitPrograms ==
        LET Exit == <<"exit", "when", "true", ";">>
            Seqs == {Exit, Exit \o Exit, <<"write", "(", "1", ")", ";">> \o Exit,
                       <<"if", "true", "then">> \o Exit,
                       <<"loop">> \o Exit \o <<"end", ";">> \o Exit,
                       <<"loop">> \o Exit \o <<"end", ";">>,
                       <<"write", "(", "1", ")", ";">>}
            Rest == <<"program", "P", ";", "begin", "end", ";">>
        IN {Main(Vars, Lexemes(body)) : body \in Seqs}
             \cup {Lexemes(<<"procedure", "Q", ";", "begin">> \o body \o <<"end", ";">> \o Rest) :
                     body \in Seqs}
             \cup {Lexemes(<<"function", "F", ":", "integer", ";", "begin">> \o body
                             \o <<"return", "1", ";", "end", ";">> \o Rest) :
                     body \in Seqs}
      ReturnPrograms ==
        LET Statements == {<<"return", "1", ";">>, <<"return", "'a'", ";">>,
                           <<"return", "true", ";">>, <<"return", ";">>,
                           <<"if", "true", "then", "return", "'a'", ";">>,
                           <<"if", "true", "then", "return", ";">>}
            Seqs == {<<>>} \cup Statements \cup {s \o t : s, t \in Statements}
            Rest == <<"end", ";", "program", "P", ";", "begin", "end", ";">>
        IN {Lexemes(<<"function", "F", ":", t, ";", "begin">> \o body \o Rest) :
              t \in {"integer", "boolean", "string"}, body \in Seqs}
             \cup {Lexemes(<<"procedure", "Q", ";", "begin">> \o body \o Rest) : body \in Seqs}
             \cup {Lexemes(<<"program", "P", ";", "begin">> \o body \o <<"end", ";">>) :
                     body \in Seqs}
      Compounds ==
        {Main(Vars, Lexemes(body)) :
           body \in {<<"return", "1", ";", "return", e, ";">> : e \in {"'a'", "2", "true"}}
             \cup {<<"if", "true", "then", "begin", "return", "1", ";", "end", ";",
                     "else", "begin", "return", e, ";", "end", ";">> : e \in {"'a'", "2"}}
             \cup {<<"case", "x", "of", "1", ":", "begin", "return", "1", ";", "end", ";",
                     arm, ":", "begin", "return", e, ";", "end", ";", "end", ";">> :
                     arm \in {"2", "otherwise"}, e \in {"'a'", "2"}}
             \cup {<<"write", "(", "1", ")", ";", "return", "1", ";", "x", ":=", "1", ";",
                     "return", "'a'", ";">>}}
      Malformed ==
        {Main(Vars, Lexemes(body)) : body \in {<<"x", ":=", ";">>, <<"loop", ";">>}}
      Units ==
        LET Unit == [P |-> <<"program", "P", ";", "begin", "end", ";">>,
                     X |-> <<"program", "X", ";", "begin", "end", ";">>,
                     Q |-> <<"procedure", "Q", ";", "begin", "end", ";">>,
                     F |-> <<"function", "F", ":", "integer", ";", "begin", "return", "1", ";",
                             "end", ";">>]
            RECURSIVE Words(_)
            Words(names) ==
              IF names = <<>> THEN <<>> ELSE Unit[Head(names)] \o Words(Tail(names))
        IN {Lexemes(Words(names)) :
              names \in {s \in UNION {[1..n -> DOMAIN Unit] : n \in 0..MaxUnits} :
                           \A i, j \in DOMAIN s : s[i] = s[j] => i = j}}
      BodyErrors ==
        {Lexemes(<<kind, "Q", ";", "begin">> \o body
                   \o <<"end", ";", "program", "P", ";", "begin", "end", ";">>) :
           kind \in {"procedure"},
           body \in {<<"if", "1", "then", "write", "(", "1", ")", ";">>,
                     <<"write", "(", "1", "+", "true", ")", ";">>,
                     <<"write", "(", "1", "-", "true", ")", ";", "write", "(", "true", "-", "1", ")", ";">>}}
      Assignments ==
        {Main(Vars, Lexemes(<<id, ":=", e, ";">>)) :
           id \in {"x", "b", "s"}, e \in {"1", "true", "'a'", "x", "b", "s"}}
          \cup {Lexemes(<<"function", "F", ":", "integer", ";", "begin", "return", "1", ";",
                          "end", ";", "procedure", "Q", ";", "begin", "end", ";">>)
                  \o Main(Vars, Lexemes(<<id, ":=">> \o e \o <<";">>)) :
                  id \in {"F", "Q"}, e \in {<<"1">>, <<"true">>, <<"'a'">>, <<"x">>, <<"1", "+", "true">>}}
      Calls ==
        LET Callees ==
              Lexemes(<<"function", "F", "(", "y", ":", "integer", ")", ":", "integer", ";",
                        "begin", "return", "1", ";", "end", ";",
                        "procedure", "Q", "(", "y", ":", "integer", ";", "x", ":", "string", ")", ";",
                        "begin", "end", ";">>)
            E == {<<"1">>, <<"true">>, <<"'a'">>, <<"1", "+", "true">>}
            Lists == {<<>>} \cup {<<"(">> \o d \o <<")">> : d \in E}
                       \cup {<<"(">> \o d \o <<",">> \o e \o <<")">> : d, e \in E}
                       \cup {<<"(", "1", ",", "'a'", ",", "1", ")">>}
        IN {Callees \o Main(Vars, Lexemes(<<callee>> \o list \o <<";">>)) :
              callee \in {"F", "Q"}, list \in Lists}
             \cup {Callees \o Main(Vars, Lexemes(<<"x", ":=", callee>> \o list \o <<";">>)) :
                     callee \in {"F", "Q"}, list \in Lists}
      Matrix ==
        LET Operators == {"or", "xor", "and", "=", "<>", ">", ">=", "<", "<=",
                          "+", "-", "*", "/", "mod", "**"}
            Values == {"1", "true", "'a'"}
        IN {Main(Vars, Lexemes(<<"write", "(", l, op, r, ")", ";">>)) :
              l \in Values, op \in Operators, r \in Values}
  IN /\ symbolTable = SymbolTableInit
     /\ heap = <<>>
     /\ lexer = LexerInit(<<32>>)
     /\ parser = ParserInit
     /\ semanticActions = SemanticActionsInit
     /\ source \in CallsOfMain \cup ForHeaders \cup ReadStatements \cup MaxMin \cup Headers \cup Cascades \cup Loops \cup ExitPrograms \cup ReturnPrograms \cup Compounds \cup Malformed \cup Units \cup BodyErrors \cup Assignments \cup Calls \cup Matrix
     /\ free = 0
     /\ call = NoCall
     /\ slrData = "grammar"

SpecSem == InitSem /\ [][Next]_vars

----------------------------------------------------------------------------
\* Properties.

\* Text equal up to the case of its letters.
EqualsIgnoreCase(a, b) ==
  /\ Len(a) = Len(b)
  /\ \A i \in 1..Len(a) :
       \/ a[i] = b[i]
       \/ IsLetter(a[i]) /\ IsLetter(b[i]) /\ (a[i] - b[i] = 32 \/ b[i] - a[i] = 32)

\* The symbols a scope holds under a name equal to `name` up to case.
HeldIn(st, scope, name) ==
  {st.scopes[scope].symbols[k] :
     k \in {key \in DOMAIN st.scopes[scope].symbols : EqualsIgnoreCase(key, name)}}

\* Positions of the scope stack whose scope holds `name`.
Holders(st, name) ==
  {i \in 1..Len(st.scopeStack) : HeldIn(st, st.scopeStack[i], name) # {}}

Maximum(S) == CHOOSE x \in S : \A y \in S : y <= x

\* C1: in every state of parse() - at the start, after each shift, after each
\* reduction, after the returns on a missing production or a missing GOTO
\* entry, and at accept - the state stack and the semantic stack have the
\* same length, whatever the table file holds.
C1_StacksAligned == Len(parser.stateStack) = Len(parser.semanticStack)

\* parse() has returned on a missing GOTO entry after shifts and reductions.
C1_Witness ==
  /\ parser.pc = "done"
  /\ Len(parser.stateStack) >= 3
  /\ \E i \in DOMAIN parser.errors : parser.errors[i].message = "No GOTO entry"

\* C2: when the parser accepts, both stacks have length exactly 3: the
\* initial state, the start non-terminal and the final state.
C2_AcceptLength3 ==
  parser.result = "node" =>
    /\ Len(parser.stateStack) = 3
    /\ Len(parser.semanticStack) = 3
    /\ parser.stateStack[1] = 0
    /\ parser.stateStack[2] = nonTerminalNameToId["P"]

\* An input with a program and a procedure has been accepted.
C2_Witness == parser.result = "node" /\ Len(heap) >= 2

\* C3: exitScope never removes the global scope: the scope stack is never
\* empty, its bottom is the global scope, and exitScope with only the global
\* scope on the stack leaves the table as it was.
C3_GlobalNeverPopped ==
  /\ Len(symbolTable.scopeStack) >= 1
  /\ symbolTable.scopeStack[1] = symbolTable.globalScope
  /\ (call.op = "exitScope" /\ Len(call.before.scopeStack) = 1)
       => symbolTable = call.before

\* exitScope was called at the global level of a table that has had scopes.
C3_Witness ==
  /\ call.op = "exitScope"
  /\ Len(call.before.scopeStack) = 1
  /\ Len(symbolTable.scopes) > 1

\* C4: define returns false and leaves the table unchanged when the current
\* scope already holds the name up to case; otherwise (name only in outer
\* scopes, or nowhere) it returns true and the current scope holds the symbol.
C4_Define ==
  call.op = "define" =>
    IF HeldIn(call.before, call.before.currentScope, call.name) # {}
    THEN ~call.defined /\ symbolTable = call.before
    ELSE /\ call.defined
         /\ HeldIn(symbolTable, symbolTable.currentScope, call.name) = {call.symbol}
         /\ symbolTable.scopeStack = call.before.scopeStack
         /\ \A s \in DOMAIN call.before.scopes :
              s # call.before.currentScope => symbolTable.scopes[s] = call.before.scopes[s]

\* define was refused for a name that differs in case from the one the inner
\* scope holds, after that one was accepted as a shadow of an outer symbol.
C4_Witness ==
  /\ call.op = "define"
  /\ ~call.defined
  /\ Len(symbolTable.scopeStack) = 2
  /\ \E s \in HeldIn(symbolTable, symbolTable.currentScope, call.name) :
       heap[s].name # call.name
  /\ HeldIn(symbolTable, symbolTable.globalScope, call.name) # {}

\* C5: lookup returns the symbol of the innermost scope on the scope stack
\* that holds the name up to case, undefined when no scope on the stack
\* holds it, and never a symbol of a scope that has been exited.
C5_Lookup ==
  call.op = "lookup" =>
    LET holders == Holders(call.before, call.name)
    IN IF holders = {}
       THEN call.found = NoSymbol
       ELSE HeldIn(call.before, call.before.scopeStack[Maximum(holders)], call.name)
              = {call.found}

\* lookup found the name in the global scope while an exited scope holds
\* another symbol of that name.
C5_Witness ==
  /\ call.op = "lookup"
  /\ call.found # NoSymbol
  /\ \E s \in DOMAIN symbolTable.scopes :
       /\ \A i \in DOMAIN symbolTable.scopeStack : symbolTable.scopeStack[i] # s
       /\ HeldIn(symbolTable, s, call.name) # {}
       /\ call.found \notin HeldIn(symbolTable, s, call.name)

\* The reductions the parser is about to choose from.
PendingReductions ==
  IF parser.pc = "loop"
  THEN {a \in actionsAt(currentState, tokenId) : a[1] = REDUCTION}
  ELSE {}

\* C6: the current scope is always the top of the scope stack; the scope a
\* header enters (production 9) is entered from the global scope and left by
\* the one exitScope at the end of that unit's body (productions 7, 11, 13),
\* so an analysis that is accepted ends with the global scope alone.
C6_ScopesMatched ==
  /\ symbolTable.currentScope = Top(symbolTable.scopeStack)
  /\ parser.result = "node" => symbolTable.scopeStack = <<symbolTable.globalScope>>
  /\ \A a \in PendingReductions :
       /\ a[2] = 9 => Len(symbolTable.scopeStack) = 1
       /\ a[2] \in {7, 11, 13} => Len(symbolTable.scopeStack) = 2

\* An input with two units has been accepted.
C6_Witness == parser.result = "node" /\ Len(symbolTable.scopes) >= 3

\* C7: a symbol's kind is UNKNOWN when the lexer creates it and changes at
\* most once, from UNKNOWN to VARIABLE, PARAMETER, FUNCTION, PROCEDURE or
\* PROGRAM: never back to UNKNOWN, never from one of those to another.
C7_KindChangesOnce ==
  [][/\ \A i \in DOMAIN heap' \ DOMAIN heap : heap'[i].kind = "UNKNOWN"
     /\ \A i \in DOMAIN heap :
          heap'[i].kind # heap[i].kind =>
            /\ heap[i].kind = "UNKNOWN"
            /\ heap'[i].kind \in {"VARIABLE", "PARAMETER", "FUNCTION", "PROCEDURE",
                                  "PROGRAM"}]_vars

\* A function's and another unit's header have been reduced.
C7_Witness ==
  /\ \E i \in DOMAIN heap : heap[i].kind = "FUNCTION"
  /\ \E i \in DOMAIN heap : heap[i].kind = "UNKNOWN"

\* The size of a declared type.
SizeOf(dataType) == IF dataType = "STRING" THEN 64 ELSE 1

\* C8: the reduction of a variable declaration gives the declared symbol
\* kind VARIABLE, the declared dataType and, as offset, the displacement of
\* the zone it is declared in, which grows by the size of the type.
C8_VariableDeclaration ==
  [][\A i \in DOMAIN heap :
       (heap[i].offset = NoNum /\ heap'[i].offset # NoNum /\ heap'[i].byReference = Undef) =>
         /\ heap'[i].kind = "VARIABLE"
         /\ heap'[i].dataType \in {"INTEGER", "BOOLEAN", "STRING"}
         /\ IF semanticActions.isGlobalScope
            THEN /\ heap'[i].offset = semanticActions.globalDisplacement
                 /\ semanticActions'.globalDisplacement =
                      semanticActions.globalDisplacement + SizeOf(heap'[i].dataType)
            ELSE /\ heap'[i].offset = semanticActions.localDisplacement
                 /\ semanticActions'.localDisplacement =
                      semanticActions.localDisplacement + SizeOf(heap'[i].dataType)]_vars

\* The lexer has just completed an identifier that is no reserved word.
LexedIdentifier ==
  /\ lexer'.position # lexer.position
  /\ lexer'.lexeme # <<>>
  /\ IsLetter(lexer'.lexeme[1])
  /\ Len(lexer'.lexeme) <= MaxIdLength
  /\ \A k \in DOMAIN keywords : ~EqualsIgnoreCase(k, lexer'.lexeme)

\* The lexer has recorded one more error, with this message, and returned
\* no token.
LexerFailed(msg) ==
  /\ Len(lexer'.errors) = Len(lexer.errors) + 1
  /\ SubSeq(lexer'.errors, 1, Len(lexer.errors)) = lexer.errors
  /\ lexer'.errors[Len(lexer'.errors)].message = msg
  /\ lexer'.errors[Len(lexer'.errors)].lexeme = lexer'.lexeme
  /\ lexer'.lastToken = NullToken
  /\ parser'.result = "null"

\* C9: in declaration mode an identifier that is no reserved word becomes a
\* fresh symbol of kind UNKNOWN in the current scope, carried by the
\* identifier token; if the current scope already holds the name, the lexer
\* records 'already declared in current scope', returns no token and leaves
\* the symbol table as it was.
C9_DeclarationMode ==
  [][(LexedIdentifier /\ lexer.declarationZone) =>
       IF HeldIn(symbolTable, symbolTable.currentScope, lexer'.lexeme) # {}
       THEN /\ LexerFailed("already declared in current scope")
            /\ symbolTable' = symbolTable
            /\ heap' = heap
       ELSE /\ lexer'.errors = lexer.errors
            /\ lexer'.lastToken.type = "IDENTIFIER"
            /\ parser'.token = lexer'.lastToken
            /\ LET s == lexer'.lastToken.symbol
               IN /\ s \in DOMAIN heap' \ DOMAIN heap
                  /\ heap'[s].kind = "UNKNOWN"
                  /\ EqualsIgnoreCase(heap'[s].name, lexer'.lexeme)
                  /\ heap'[s].scope = getCurrentScopeName(symbolTable)
                  /\ HeldIn(symbolTable', symbolTable.currentScope, lexer'.lexeme) = {s}
                  /\ symbolTable'.scopeStack = symbolTable.scopeStack]_vars

\* A name was declared again, in other letter case, in the scope of a unit.
C9_Witness ==
  /\ lexer.errors # <<>>
  /\ lexer.errors[Len(lexer.errors)].message = "already declared in current scope"
  /\ \E s \in HeldIn(symbolTable, symbolTable.currentScope, lexer.lexeme) :
       heap[s].originalLexeme # lexer.lexeme
  /\ lexer.lastToken = NullToken

\* C10: outside declaration mode an identifier that is no reserved word is
\* looked up through the scopes on the stack and the table is not modified:
\* absent, the lexer records 'not declared' and returns no token; present,
\* the identifier token carries the symbol lookup returns.
C10_UseMode ==
  [][(LexedIdentifier /\ ~lexer.declarationZone) =>
       /\ symbolTable' = symbolTable
       /\ heap' = heap
       /\ IF Holders(symbolTable, lexer'.lexeme) = {}
          THEN LexerFailed("not declared")
          ELSE /\ lexer'.errors = lexer.errors
               /\ lexer'.lastToken.type = "IDENTIFIER"
               /\ parser'.token = lexer'.lastToken
               /\ lexer'.lastToken.symbol = lookup(symbolTable, lexer'.lexeme)
               /\ lexer'.lastToken.symbol # NoSymbol]_vars

\* Inside a unit's body the lexer resolved a name that only the global scope
\* holds.
C10_Witness ==
  /\ ~lexer.declarationZone
  /\ lexer.lastToken.type = "IDENTIFIER"
  /\ Len(symbolTable.scopeStack) = 2
  /\ HeldIn(symbolTable, symbolTable.currentScope, lexer.lexeme) = {}
  /\ lexer.lastToken.symbol \in HeldIn(symbolTable, symbolTable.globalScope, lexer.lexeme)

\* The text of an input of these lexemes: a blank, then every lexeme
\* followed by a blank.
RECURSIVE TextOf(_)
TextOf(lexemes) ==
  IF lexemes = <<>> THEN <<32>>
  ELSE TextOf(SubSeq(lexemes, 1, Len(lexemes) - 1)) \o lexemes[Len(lexemes)] \o <<32>>

\* parse() has returned from the analysis of the input of these lexemes.
Analysed(lexemes) ==
  /\ parser.pc = "done"
  /\ free = 0
  /\ \E n \in 0..Len(lexemes) :
       /\ lexer.input = TextOf(SubSeq(lexemes, 1, n))
       /\ source = SubSeq(lexemes, n + 1, Len(lexemes))

Messages(errors) == {errors[i].message : i \in DOMAIN errors}

LoopWithUndeclared ==
  Lexemes(<<"program", "P", ";", "begin", "loop", "x", ":=", "1", ";",
            "end", ";", "end", ";">>)

\* C11: the analysis of `program P; begin loop x := 1; end; end;` ends with
\* two errors, that x is not declared and that the loop must contain at
\* least one exit.
C11_LoopCheckAfterUndeclared ==
  Analysed(LoopWithUndeclared) =>
    /\ "not declared" \in Messages(lexer.errors)
    /\ "Loop: Must contain at least one exit" \in Messages(semanticActions.errors)
    /\ Len(lexer.errors) + Len(parser.errors) + Len(semanticActions.errors) = 2

\* What the analysis of that input ends with: the one lexical error, and
\* parse() has returned null right after the shift of `loop`.
C11_Observed ==
  Analysed(LoopWithUndeclared) =>
    /\ Messages(lexer.errors) = {"not declared"}
    /\ Len(lexer.errors) = 1
    /\ parser.errors = <<>>
    /\ semanticActions.errors = <<>>
    /\ parser.result = "null"
    /\ source = Lexemes(<<":=", "1", ";", "end", ";", "end", ";">>)

\* Index in the input of the first character the next call of getNextToken
\* finds after the blanks at the current position (one past the end if none).
AfterBlanks(lx) ==
  CHOOSE j \in (lx.position + 1)..(Len(lx.input) + 1) :
    /\ \A i \in (lx.position + 1)..(j - 1) : lx.input[i] = 32
    /\ j <= Len(lx.input) => lx.input[j] # 32

\* The longest piece of the input from index `from` on whose characters all
\* satisfy Within.
RunFrom(lx, from, Within(_)) ==
  LET last == CHOOSE j \in (from - 1)..Len(lx.input) :
                /\ \A i \in from..j : Within(lx.input[i])
                /\ j < Len(lx.input) => ~Within(lx.input[j + 1])
  IN SubSeq(lx.input, from, last)

IsLetterOrDigit(c) == IsLetter(c) \/ IsDigit(c)
InString(c) == c \notin {39, 10, 13}

\* The lexer is in front of a complete string literal.
AtStringLiteral(lx) ==
  LET quote == AfterBlanks(lx)
      close == quote + Len(RunFrom(lx, quote + 1, InString)) + 1
  IN /\ quote <= Len(lx.input)
     /\ lx.input[quote] = 39
     /\ close <= Len(lx.input)
     /\ lx.input[close] = 39

\* The call recorded one more lexical error, with this message, and returned
\* no token.
Rejected(msg) ==
  /\ call'.token = NullToken
  /\ Len(lexer'.errors) = Len(lexer.errors) + 1
  /\ lexer'.errors[Len(lexer'.errors)].message = msg

\* C12: a string literal of at most 64 content characters is returned as a
\* STRING_LITERAL token holding the content; a longer one is rejected with a
\* lexical error and no token.
C12_StringLimit ==
  [][(call'.op = "getNextToken" /\ lexer.stopAtLine = NoNum /\ AtStringLiteral(lexer)) =>
       LET content == RunFrom(lexer, AfterBlanks(lexer) + 1, InString)
       IN IF Len(content) <= 64
          THEN /\ call'.token.type = "STRING_LITERAL"
               /\ call'.token.lexeme = content
               /\ lexer'.errors = lexer.errors
          ELSE Rejected("String exceeds maximum length of 64 characters")]_vars

\* What the lexer does: the limit is 63 content characters.
C12_Observed ==
  [][(call'.op = "getNextToken" /\ lexer.stopAtLine = NoNum /\ AtStringLiteral(lexer)) =>
       LET content == RunFrom(lexer, AfterBlanks(lexer) + 1, InString)
       IN IF Len(content) < 64
          THEN /\ call'.token.type = "STRING_LITERAL"
               /\ call'.token.lexeme = content
               /\ lexer'.errors = lexer.errors
          ELSE Rejected("String exceeds maximum length of 64 characters")]_vars

\* C13: an integer literal of value at most 32767 is returned as an
\* INTEGER_LITERAL token of that value, a larger one is rejected with the
\* overflow error and no token, whatever literals the lexer scanned before.
C13_IntegerLimit ==
  [][(call'.op = "getNextToken" /\ lexer.stopAtLine = NoNum
        /\ AfterBlanks(lexer) <= Len(lexer.input)
        /\ IsDigit(lexer.input[AfterBlanks(lexer)])) =>
       LET digits == RunFrom(lexer, AfterBlanks(lexer), IsDigit)
       IN IF parseInt(digits) <= 32767
          THEN /\ call'.token.type = "INTEGER_LITERAL"
               /\ parseInt(call'.token.lexeme) = parseInt(digits)
               /\ lexer'.errors = lexer.errors
          ELSE Rejected("Integer exceeds maximum value")]_vars

\* 32767 was accepted right after a literal that overflowed.
C13_Witness ==
  /\ call.token.type = "INTEGER_LITERAL"
  /\ call.token.lexeme = <<51, 50, 55, 54, 55>>
  /\ Len(lexer.errors) = 1
  /\ lexer.errors[1].message = "Integer exceeds maximum value"
  /\ parseInt(lexer.errors[1].lexeme) > 32768

\* C14: an identifier of at most 32 characters is not rejected for its
\* length: it is looked up or defined, and returned when that succeeds.  One
\* of 33 or more characters is rejected with the length error, returns no
\* token and leaves the symbol table as it was.
C14_IdentifierLimit ==
  [][(call'.op = "getNextToken" /\ lexer.stopAtLine = NoNum
        /\ AfterBlanks(lexer) <= Len(lexer.input)
        /\ IsLetter(lexer.input[AfterBlanks(lexer)])) =>
       LET id == RunFrom(lexer, AfterBlanks(lexer), IsLetterOrDigit)
       IN IF Len(id) <= 32
          THEN IF lexer.declarationZone
               THEN IF HeldIn(symbolTable, symbolTable.currentScope, id) = {}
                    THEN /\ call'.token.type = "IDENTIFIER"
                         /\ call'.token.lexeme = id
                         /\ HeldIn(symbolTable', symbolTable.currentScope, id)
                              = {call'.token.symbol}
                         /\ heap'[call'.token.symbol].length = Len(id)
                    ELSE Rejected("already declared in current scope")
               ELSE Rejected("not declared")
          ELSE /\ Rejected("Identifier exceeds maximum length")
               /\ symbolTable' = symbolTable
               /\ heap' = heap]_vars

\* An identifier of 32 characters was defined and one of 33 was rejected.
C14_Witness ==
  /\ \E s \in DOMAIN heap : heap[s].length = 32 /\ Len(heap[s].name) = 32
  /\ \E e \in DOMAIN lexer.errors :
       /\ lexer.errors[e].message = "Identifier exceeds maximum length"
       /\ Len(lexer.errors[e].lexeme) = 33

\* The characters a call of getNextToken consumed.
Consumed == SubSeq(lexer.input, lexer.position + 1, lexer'.position)

Count(text, Which(_)) == Cardinality({i \in DOMAIN text : Which(text[i])})
IsLineBreak(c) == c = 10 \/ c = 13

\* Line breaks of a text, where each of LF, CR and CRLF is one.
LogicalLineBreaks(text) ==
  Count(text, IsLineBreak)
    - Cardinality({i \in 1..(Len(text) - 1) : text[i] = 13 /\ text[i + 1] = 10})

\* The call consumed whitespace, comments and tokens, but no part of a string
\* literal, and did not start between the CR and the LF of a CRLF.
OutsideStrings ==
  /\ call'.op = "getNextToken"
  /\ \A i \in DOMAIN Consumed : Consumed[i] # 39
  /\ ~(lexer.position > 0 /\ lexer.position < Len(lexer.input)
         /\ lexer.input[lexer.position] = 13 /\ lexer.input[lexer.position + 1] = 10)

\* C15: outside string literals a call of the lexer advances the line counter
\* by the number of logical line breaks it consumed, where each of LF, CR and
\* CRLF is one.
C15_LineCounter ==
  [][OutsideStrings => lexer'.line = lexer.line + LogicalLineBreaks(Consumed)]_vars

\* Line breaks as the automaton counts them, from index i of a text on: a CR
\* right after an LF, like an LF right after a CR, is part of the same break.
RECURSIVE CountedLineBreaks(_, _)
CountedLineBreaks(text, i) ==
  IF i > Len(text) THEN 0
  ELSE IF ~IsLineBreak(text[i]) THEN CountedLineBreaks(text, i + 1)
  ELSE IF i < Len(text) /\ IsLineBreak(text[i + 1]) /\ text[i + 1] # text[i]
  THEN 1 + CountedLineBreaks(text, i + 2)
  ELSE 1 + CountedLineBreaks(text, i + 1)

\* What the lexer does instead: LF followed by CR is one line break too.
C15_Observed ==
  [][OutsideStrings => lexer'.line = lexer.line + CountedLineBreaks(Consumed, 1)]_vars

\* Index of the first character from index i on that is outside whitespace
\* and comments (one past the end if there is none).
RECURSIVE SkipTrivia(_, _, _)
SkipTrivia(text, i, inComment) ==
  IF i > Len(text) THEN i
  ELSE IF inComment THEN SkipTrivia(text, i + 1, text[i] # 125)
  ELSE IF text[i] \in {9, 32, 10, 13} THEN SkipTrivia(text, i + 1, FALSE)
  ELSE IF text[i] = 123 THEN SkipTrivia(text, i + 1, TRUE)
  ELSE i

\* 0-based offset of the first character of the physical line that holds
\* the character at 0-based offset p: lines end at LF, CR or CRLF.
LineStart(text, p) == Maximum({0} \cup {i \in 1..p : IsLineBreak(text[i])})

\* A call of the lexer, with no stop point and no lexical error so far,
\* returned a token.
Emitted ==
  /\ call'.op = "getNextToken"
  /\ lexer.stopAtLine = NoNum
  /\ lexer'.errors = <<>>
  /\ call'.token # NullToken

\* C16: the position of a returned token is the offset of its first
\* character in the input and its column is the offset of that character
\* from the start of its physical line.
C16_TokenCoordinates ==
  [][Emitted =>
       LET start == SkipTrivia(lexer.input, lexer.position + 1, FALSE) - 1
       IN /\ call'.token.position = start
          /\ call'.token.column = start - LineStart(lexer.input, start)]_vars

\* What the lexer does: the position is right, and the column is right on
\* the first line and after line breaks of a single character; the second
\* character of a two-character line break is counted as a column.
C16_Observed ==
  [][Emitted =>
       LET start == SkipTrivia(lexer.input, lexer.position + 1, FALSE) - 1
           lineStart == LineStart(lexer.input, start)
           twoCharacters == /\ lineStart >= 2
                            /\ IsLineBreak(lexer.input[lineStart - 1])
                            /\ lexer.input[lineStart - 1] # lexer.input[lineStart]
                            /\ CountedLineBreaks(SubSeq(lexer.input, 1, lineStart), 1)
                                 = CountedLineBreaks(SubSeq(lexer.input, 1, lineStart - 1), 1)
       IN /\ call'.token.position = start
          /\ call'.token.column =
               start - lineStart + (IF twoCharacters THEN 1 ELSE 0)]_vars

\* A call of a lexer armed with a stop point scanned a token.
ScannedWithStop ==
  /\ call'.op = "getNextToken"
  /\ lexer.stopAtLine # NoNum
  /\ lexer'.lastToken # NullToken

\* The token of getLastToken() ends beyond the stop point of the lexer lx:
\* on a later line, or on the line of the stop point with its last character
\* at or after the stop column.
EndsBeyondStop(lx) ==
  LET endColumn == lx.lastToken.column + (lx.position - lx.lastToken.position)
  IN \/ lx.lastToken.line > lx.stopAtLine
     \/ /\ lx.lastToken.line = lx.stopAtLine
        /\ endColumn > lx.stopAtColumn

QueriedSource ==
  CHOOSE pieces \in DefSources : TextOfPieces(pieces, Len(pieces)) = lexer.input
QueriedOffset ==
  CHOOSE p \in Cursors(lexer.input) :
    /\ PositionAt(lexer.input, p).line + 1 = lexer.stopAtLine
    /\ PositionAt(lexer.input, p).character = lexer.stopAtColumn

OffsetOf(pieces, k) == Len(TextOfPieces(pieces, k - 1))
EndOf(pieces, k) == Len(TextOfPieces(pieces, k))
\* Pieces of a role: all of them, and those that hold the character at p.
PiecesOf(pieces, role) == {k \in DOMAIN pieces : pieces[k].role = role}
PiecesAt(pieces, role, p) ==
  {k \in PiecesOf(pieces, role) : OffsetOf(pieces, k) <= p /\ p < EndOf(pieces, k)}

\* findSymbolDefinition returned the span recorded for the definition that
\* the use in piece k resolves to.
ReturnedDefinitionOf(pieces, k) ==
  \E d \in PiecesOf(pieces, "definition"), s \in DOMAIN heap :
    /\ pieces[d].name = pieces[k].name
    /\ heap[s].position = OffsetOf(pieces, d)
    /\ heap[s].length = Len(pieces[d].chars)
    /\ call.result = [position |-> heap[s].position, line |-> heap[s].line,
                      column |-> heap[s].column, length |-> heap[s].length]

\* C18: in a source without errors, findSymbolDefinition called with a
\* cursor inside a use of a symbol returns the position, line, column and
\* length recorded at the definition the use resolves to under the scope
\* rules.
C18_DefinitionAtUse ==
  (call.op = "findSymbolDefinition" /\ PiecesOf(QueriedSource, "error") = {}) =>
    \A k \in PiecesAt(QueriedSource, "use", QueriedOffset) :
      ReturnedDefinitionOf(QueriedSource, k)

\* No line of the text up to offset p ends with CRLF.
NoCRLFBefore(text, p) == \A i \in 1..(p - 1) : ~(text[i] = 13 /\ text[i + 1] = 10)

\* What the analyzer does: the same, in sources whose lines up to the cursor
\* end with LF or CR.
C18_Observed ==
  (/\ call.op = "findSymbolDefinition"
   /\ PiecesOf(QueriedSource, "error") = {}
   /\ NoCRLFBefore(lexer.input, QueriedOffset)) =>
    \A k \in PiecesAt(QueriedSource, "use", QueriedOffset) :
      ReturnedDefinitionOf(QueriedSource, k)

\* C19: findSymbolDefinition returns a definition only if no lexical and no
\* syntax error was recorded; it returns undefined when the token of the
\* first error of the source ends at or before the cursor; and an error that
\* starts after the cursor does not keep it from returning the definition
\* for a cursor inside a use.
C19_ErrorsBeforeCursor ==
  call.op = "findSymbolDefinition" =>
    /\ call.result # NoDefinition => (lexer.errors = <<>> /\ parser.errors = <<>>)
    /\ \A e \in PiecesOf(QueriedSource, "error") :
         /\ EndOf(QueriedSource, e) <= QueriedOffset => call.result = NoDefinition
         /\ OffsetOf(QueriedSource, e) > QueriedOffset =>
              \A k \in PiecesAt(QueriedSource, "use", QueriedOffset) :
                ReturnedDefinitionOf(QueriedSource, k)

\* What the analyzer does: the same, in sources whose lines up to the cursor
\* end with LF or CR; and the error that ends at or before the cursor is the
\* one recorded, at its offset.
C19_Observed ==
  (call.op = "findSymbolDefinition" /\ NoCRLFBefore(lexer.input, QueriedOffset)) =>
    /\ call.result # NoDefinition => (lexer.errors = <<>> /\ parser.errors = <<>>)
    /\ \A e \in PiecesOf(QueriedSource, "error") :
         /\ EndOf(QueriedSource, e) <= QueriedOffset =>
              /\ call.result = NoDefinition
              /\ Len(lexer.errors) + Len(parser.errors) = 1
              /\ \A r \in {(lexer.errors \o parser.errors)[1].position} :
                   r = OffsetOf(QueriedSource, e)
         /\ OffsetOf(QueriedSource, e) > QueriedOffset =>
              \A k \in PiecesAt(QueriedSource, "use", QueriedOffset) :
                ReturnedDefinitionOf(QueriedSource, k)

\* ACTION has no entry for the state on top of the stack and the lookahead.
NoActionEntry ==
  /\ parser.pc = "loop"
  /\ slrData = "grammar"
  /\ ~hasAction(Top(parser.stateStack), getTokenId(parser.token.type))

\* C20: when ACTION has no entry, parse() records one syntax error whose
\* expected tokens are the terminals with an entry in the current state,
\* each once, and returns; the list of syntax errors never holds more than
\* one, and once it holds one the parser shifts and reduces no more.
C20_SyntaxErrorOnce ==
  [][/\ NoActionEntry =>
          /\ Len(parser'.errors) = Len(parser.errors) + 1
          /\ LET e == parser'.errors[Len(parser'.errors)]
                 terminals == {t \in DOMAIN tokenTypeToId :
                                 hasAction(Top(parser.stateStack), tokenTypeToId[t])}
             IN /\ {e.expected[i] : i \in DOMAIN e.expected} = terminals
                /\ Len(e.expected) = Cardinality(terminals)
                /\ e.found = parser.token.type
                /\ e.position = parser.token.position
          /\ parser'.pc = "done"
          /\ parser'.stateStack = parser.stateStack
          /\ parser'.semanticStack = parser.semanticStack
     /\ Len(parser'.errors) <= 1
     /\ parser.errors # <<>> =>
          /\ parser' = parser
          /\ symbolTable' = symbolTable
          /\ semanticActions' = semanticActions]_vars

\* parse() has returned after a syntax error met past the first tokens, in a
\* state that expects several terminals.
C20_Witness ==
  /\ parser.pc = "done"
  /\ Len(parser.errors) = 1
  /\ Len(parser.errors[1].expected) > 1
  /\ Len(parser.stateStack) > 3
  /\ parser.errors[1].found = parser.token.type

\* parse() is about to reduce by production n, and what it reduces: the
\* attributes i places below the top of the semantic stack (as getAttribute
\* counts them), the attributes the reduction has pushed, and the errors
\* the semantic action has added.
Reducing(n) ==
  /\ parser.pc = "loop"
  /\ slrData = "grammar"
  /\ hasAction(Top(parser.stateStack), getTokenId(parser.token.type))
  /\ actionTable[Top(parser.stateStack) + 1][getTokenId(parser.token.type)] = <<REDUCTION, n>>
Operand(i) == parser.semanticStack[Len(parser.semanticStack) - i]
Reduced == parser'.semanticStack[Len(parser'.semanticStack) - 1]
NewErrors ==
  SubSeq(semanticActions'.errors, Len(semanticActions.errors) + 1,
         Len(semanticActions'.errors))

\* The identifier i places below the top names the main program.
IsMainProgram(i) ==
  /\ Operand(i).symbol # NoSymbol
  /\ heap[Operand(i).symbol].kind = "PROGRAM"

\* C21: a call statement (S -> id LL ;) and an expression (Z -> id LL)
\* whose identifier names the main program, with or without an argument
\* list, add a semantic error and are typed type_error.
C21_MainNeverCalled ==
  [][((Reducing(52) /\ IsMainProgram(5)) \/ (Reducing(94) /\ IsMainProgram(3))) =>
       /\ NewErrors # <<>>
       /\ Reduced.type = <<"type_error">>]_vars

\* What the actions do: only a call statement with an argument list is
\* reported as a call of the main program; an expression with an argument
\* list is reported as a variable taking arguments; without an argument
\* list the statement is type_ok and the expression a string, with no error.
C21_Observed ==
  [][/\ (Reducing(52) /\ IsMainProgram(5)) =>
          IF OrZero(Operand(3).length) > 0
          THEN /\ Len(NewErrors) = 1
               /\ NewErrors[1].message = "The main program cannot be called"
               /\ Reduced.type = <<"type_error">>
          ELSE NewErrors = <<>> /\ Reduced.type = <<"type_ok">>
     /\ (Reducing(94) /\ IsMainProgram(3)) =>
          IF OrZero(Operand(1).length) > 0
          THEN /\ Len(NewErrors) = 1
               /\ NewErrors[1].message = "Variables do not take arguments"
               /\ Reduced.type = <<"type_error">>
          ELSE NewErrors = <<>> /\ Reduced.type = <<"string">>]_vars

\* The declared type of the identifier i places below the top.
DeclaredType(i) == heap[Operand(i).symbol].dataType

\* C22: the header `for id := e1 to e2` is typed type_ok only when e1, e2
\* and the variable id are all integer; with e1 and e2 integer and id a
\* boolean or string variable it is typed type_error and an error is added.
C22_ForHeader ==
  [][Reducing(40) =>
       LET integers == Operand(5).type = <<"integer">> /\ Operand(1).type = <<"integer">>
       IN /\ Reduced.type = <<"type_ok">> =>
               (integers /\ DeclaredType(9) = "INTEGER")
          /\ (integers /\ DeclaredType(9) \in {"BOOLEAN", "STRING"}) =>
               (Reduced.type = <<"type_error">> /\ NewErrors # <<>>)]_vars

\* What acc40 does: the type of the control variable is not looked at.
C22_Observed ==
  [][Reducing(40) =>
       LET integers == Operand(5).type = <<"integer">> /\ Operand(1).type = <<"integer">>
       IN IF integers THEN Reduced.type = <<"type_ok">> /\ NewErrors = <<>>
          ELSE Reduced.type = <<"type_error">>]_vars

\* The main program of the analysed sources up to its body: x is an
\* integer, b a boolean and s a string variable.
MainWithVars ==
  Lexemes(<<"program", "P", ";", "var", "x", ":", "integer", ";", "b", ":", "boolean", ";",
            "s", ":", "string", ";", "begin">>)

\* The lexer has read the main program up to these words of its body and
\* the word after them.
BodyRead(words, lookahead) ==
  lexer.input = TextOf(MainWithVars \o Lexemes(words \o <<lookahead>>))

\* Lists of one to three of the variables, separated by commas.
VariableLists ==
  LET V == {"x", "b", "s"}
  IN {<<v>> : v \in V} \cup {<<v, ",", w>> : v, w \in V}
       \cup {<<u, ",", v, ",", w>> : u, v, w \in V}

\* C23: a read statement whose list holds a boolean variable is typed
\* type_error and adds an error; one whose variables are all integer or
\* string is typed type_ok and adds none.
C23_ReadTypes ==
  [][\A list \in VariableLists :
       (Reducing(50) /\ BodyRead(<<"read", "(">> \o list \o <<")", ";">>, "end")) =>
         IF \E i \in DOMAIN list : list[i] = "b"
         THEN Reduced.type = <<"type_error">> /\ NewErrors # <<>>
         ELSE Reduced.type = <<"type_ok">> /\ NewErrors = <<>>]_vars

\* What the actions do: acc60 gives every variable that is not an integer
\* the type string, so every list of declared variables is accepted.
C23_Observed ==
  [][\A list \in VariableLists :
       (Reducing(50) /\ BodyRead(<<"read", "(">> \o list \o <<")", ";">>, "end")) =>
         (Reduced.type = <<"type_ok">> /\ NewErrors = <<>>)]_vars

\* The words of a space-joined list of types.
WordsOf(type) == {type[i] : i \in DOMAIN type}

\* C24: max(...) and min(...) get type integer only when every element of
\* the list is integer; a list with a logical or string element gives
\* type_error.
C24_MaxMin ==
  [][(Reducing(97) \/ Reducing(98)) =>
       /\ Reduced.type = <<"integer">> => WordsOf(Operand(3).type) = {"integer"}
       /\ WordsOf(Operand(3).type) \cap {"logical", "string"} # {} =>
            Reduced.type = <<"type_error">>]_vars

\* What acc97 and acc98 do: the result is integer whatever the list holds.
C24_Observed ==
  [][(Reducing(97) \/ Reducing(98)) =>
       (Reduced.type = <<"integer">> /\ NewErrors = <<>>)]_vars

\* The declared parameter lists of the analysed headers: each parameter has
\* its modifier (var or none), its name and its type.
DeclaredParameters ==
  LET T == {"integer", "boolean", "string"}
      P(m, n, t) == [var |-> m, name |-> n, type |-> t]
  IN {<<>>} \cup {<<P(m, "y", t)>> : m \in BOOLEAN, t \in T}
       \cup {<<P(m, "y", t), P(n, "x", u)>> : m, n \in BOOLEAN, t, u \in T}

\* The words of a parameter list as they are written in a header.
RECURSIVE ParameterWords(_, _)
ParameterWords(params, i) ==
  IF i > Len(params) THEN <<")">>
  ELSE (IF i = 1 THEN <<"(">> ELSE <<";">>)
         \o (IF params[i].var THEN <<"var">> ELSE <<>>)
         \o <<params[i].name, ":", params[i].type>>
         \o ParameterWords(params, i + 1)

HeaderWords(keyword, name, params) ==
  <<keyword, name>> \o (IF params = <<>> THEN <<>> ELSE ParameterWords(params, 1))

\* The text read by the lexer starts with these words.
InputStartsWith(words) ==
  LET text == TextOf(Lexemes(words))
  IN Len(lexer.input) >= Len(text) /\ SubSeq(lexer.input, 1, Len(text)) = text

\* The text read by the lexer ends with these words, each preceded and
\* followed by a blank; the last one is the lookahead.
InputEndsWith(words) ==
  \E n \in 0..Len(lexer.input) :
    SubSeq(lexer.input, n + 1, Len(lexer.input)) = TextOf(Lexemes(words))

DataTypeOf(word) ==
  CASE word = "integer" -> "INTEGER" [] word = "boolean" -> "BOOLEAN" [] OTHER -> "STRING"

\* The parameter list stored in a symbol agrees with the declared one:
\* one entry per parameter, in order, with its type and its mode.
ParametersAgree(stored, params) ==
  /\ Len(stored) = Len(params)
  /\ \A i \in DOMAIN params :
       /\ stored[i].dataType = DataTypeOf(params[i].type)
       /\ stored[i].byReference = params[i].var

\* The same without the modes.
ParameterTypesAgree(stored, params) ==
  /\ Len(stored) = Len(params)
  /\ \A i \in DOMAIN params : stored[i].dataType = DataTypeOf(params[i].type)

\* C25: reducing a procedure or function header leaves in the symbol one
\* parameter per declared parameter, in order, with the declared type and
\* byReference true exactly for the var parameters; a function also gets
\* its declared return type, and each header gets the next label of a
\* counter that starts at 2.
C25_HeaderParameters ==
  [][\A params \in DeclaredParameters :
       /\ (Reducing(12) /\ InputEndsWith(HeaderWords("procedure", "Q", params) \o <<";">>)) =>
            /\ ParametersAgree(heap'[Operand(3).symbol].parameters, params)
            /\ heap'[Operand(3).symbol].label
                 = ProcLabel \o numberToString(semanticActions.labelCounter)
            /\ semanticActions'.labelCounter = semanticActions.labelCounter + 1
       /\ \A t \in {"integer", "boolean", "string"} :
            (Reducing(14) /\ InputEndsWith(HeaderWords("function", "F", params) \o <<":", t, ";">>)) =>
              /\ ParametersAgree(heap'[Operand(7).symbol].parameters, params)
              /\ heap'[Operand(7).symbol].returnType = DataTypeOf(t)
              /\ heap'[Operand(7).symbol].label
                   = FuncLabel \o numberToString(semanticActions.labelCounter)
              /\ semanticActions'.labelCounter = semanticActions.labelCounter + 1]_vars

\* What acc12 and acc14 do: as C25 states, but byReference is false in
\* every entry of the parameter list, whatever the modifier.
C25_Observed ==
  [][\A params \in DeclaredParameters :
       /\ (Reducing(12) /\ InputEndsWith(HeaderWords("procedure", "Q", params) \o <<";">>)) =>
            /\ ParameterTypesAgree(heap'[Operand(3).symbol].parameters, params)
            /\ \A i \in DOMAIN params : ~heap'[Operand(3).symbol].parameters[i].byReference
            /\ heap'[Operand(3).symbol].label
                 = ProcLabel \o numberToString(semanticActions.labelCounter)
            /\ semanticActions.labelCounter >= 2
       /\ \A t \in {"integer", "boolean", "string"} :
            (Reducing(14) /\ InputEndsWith(HeaderWords("function", "F", params) \o <<":", t, ";">>)) =>
              /\ ParameterTypesAgree(heap'[Operand(7).symbol].parameters, params)
              /\ \A i \in DOMAIN params : ~heap'[Operand(7).symbol].parameters[i].byReference
              /\ heap'[Operand(7).symbol].returnType = DataTypeOf(t)
              /\ heap'[Operand(7).symbol].label
                   = FuncLabel \o numberToString(semanticActions.labelCounter)]_vars

\* The operand i of the reduction, or one element of the list it holds,
\* is already typed type_error.
HasTypeError(i) ==
  Operand(i).type # NoWords /\ "type_error" \in WordsOf(Operand(i).type)

\* The operands, conditions and argument lists of the rules that check
\* types: binary operators, unary operators, conditions, the assignment
\* and the two calls.
CheckedOperands(n) ==
  CASE n \in {65, 66, 68, 77, 78, 80, 81, 82, 84} \cup 70..75 -> {1, 5}
    [] n \in {86, 87, 88} -> {1}
    [] n = 29 -> {5}
    [] n \in {32, 34, 35} -> {7}
    [] n \in {37, 51, 54} -> {3}
    [] n = 52 -> {3}
    [] n = 94 -> {1}
    [] OTHER -> {}

\* C26: an action that receives an operand, condition or call argument
\* typed type_error adds no error and gives type_error.
C26_NoCascade ==
  [][\A n \in 1..100 : \A i \in CheckedOperands(n) :
       (Reducing(n) /\ HasTypeError(i)) =>
         (NewErrors = <<>> /\ Reduced.type = <<"type_error">>)]_vars

\* What the actions do: operators, conditions and the assignment are as
\* C26 states; a call statement with a type_error argument adds no error
\* but is typed type_ok, and a function call with a type_error argument
\* adds an error for that argument.
C26_Observed ==
  [][\A n \in 1..100 : \A i \in CheckedOperands(n) :
       (Reducing(n) /\ HasTypeError(i)) =>
         CASE n = 52 -> NewErrors = <<>> /\ Reduced.type = <<"type_ok">>
           [] n = 94 -> Len(NewErrors) = 1 /\ Reduced.type = <<"type_error">>
           [] OTHER -> NewErrors = <<>> /\ Reduced.type = <<"type_error">>]_vars

\* n exit statements in a row.
RECURSIVE Exits(_)
Exits(n) == IF n = 0 THEN <<>> ELSE <<"exit", "when", "true", ";">> \o Exits(n - 1)

LoopError(at) ==
  [message |-> "Loop: Must contain at least one exit", position |-> at.position,
   line |-> at.line, column |-> at.column, length |-> OrZero(at.llength),
   severity |-> "error"]

\* C27: reducing a loop whose body carries an exit count other than 1 adds
\* one error at the loop keyword, a body with count 1 adds none, and the
\* loop itself carries exit count 0; a body of n exit statements carries
\* count n, and the error is at the offset of the word loop.
C27_LoopExits ==
  [][Reducing(38) =>
       /\ Reduced.exit = 0
       /\ NewErrors = IF Operand(5).exit = 1 THEN <<>> ELSE <<LoopError(Operand(9))>>
       /\ \A n \in 0..MaxExits :
            BodyRead(<<"loop">> \o Exits(n) \o <<"end", ";">>, "end") =>
              /\ Operand(5).exit = n
              /\ Operand(9).position = Len(TextOf(MainWithVars))]_vars

\* The loop of two exits has been reduced and its error is recorded.
C27_Witness ==
  /\ BodyRead(<<"loop">> \o Exits(2) \o <<"end", ";">>, "end")
  /\ \E i \in DOMAIN semanticActions.errors :
       /\ semanticActions.errors[i].message = "Loop: Must contain at least one exit"
       /\ semanticActions.errors[i].position = Len(TextOf(MainWithVars))

ExitMessages ==
  {"Exit detected outside loop in Main Program", "Exit detected outside loop in Procedure",
   "Exit cannot be placed outside the loop"}

\* The errors about an exit outside a loop among the errors added by the step.
NewExitErrors == SelectSeq(NewErrors, LAMBDA e : e.message \in ExitMessages)

\* Bodies with an exit that no loop encloses, each with the number of words
\* before the first such exit.
EscapingExits ==
  LET Exit == <<"exit", "when", "true", ";">>
  IN {<<Exit, 0>>, <<Exit \o Exit, 0>>, <<<<"write", "(", "1", ")", ";">> \o Exit, 5>>,
      <<<<"if", "true", "then">> \o Exit, 3>>,
      <<<<"loop">> \o Exit \o <<"end", ";">> \o Exit, 7>>}

\* The headers of the bodies analysed, with the rule that closes the body
\* and the words between the body and its end.
Bodies ==
  {<<7, <<"program", "P", ";", "var", "x", ":", "integer", ";", "b", ":", "boolean", ";",
          "s", ":", "string", ";", "begin">>, <<>>>>,
   <<11, <<"procedure", "Q", ";", "begin">>, <<>>>>,
   <<13, <<"function", "F", ":", "integer", ";", "begin">>, <<"return", "1", ";">>>>}

\* C28: closing a body whose exit count is greater than 0 adds exactly one
\* error about an exit outside a loop, at the site of the escaping exit;
\* closing a body of count 0 adds none.
C28_ExitOutsideLoop ==
  [][\A body \in Bodies :
       Reducing(body[1]) =>
         /\ OrZero(Operand(3).exit) = 0 => NewExitErrors = <<>>
         /\ OrZero(Operand(3).exit) > 0 => Len(NewExitErrors) = 1
         /\ \A e \in EscapingExits :
              InputStartsWith(body[2] \o e[1] \o body[3] \o <<"end", ";">>) =>
                /\ Operand(3).exit > 0
                /\ Len(NewExitErrors) = 1
                /\ NewExitErrors[1].position
                     = Len(TextOf(Lexemes(body[2] \o SubSeq(e[1], 1, e[2]))))]_vars

\* What acc7, acc11 and acc13 do: the one error stands at the begin of the
\* body, because acc26 does not copy the exit site.
C28_Observed ==
  [][\A body \in Bodies :
       Reducing(body[1]) =>
         /\ OrZero(Operand(3).exit) = 0 => NewExitErrors = <<>>
         /\ OrZero(Operand(3).exit) > 0 => Len(NewExitErrors) = 1
         /\ \A e \in EscapingExits :
              InputStartsWith(body[2] \o e[1] \o body[3] \o <<"end", ";">>) =>
                /\ Operand(3).exit > 0
                /\ Len(NewExitErrors) = 1
                /\ NewExitErrors[1].position
                     = Len(TextOf(Lexemes(SubSeq(body[2], 1, Len(body[2]) - 1))))]_vars

\* Return statements, bare or with an expression, alone or under an if.
ReturnStatements ==
  {<<"return", "1", ";">>, <<"return", "'a'", ";">>, <<"return", "true", ";">>,
   <<"return", ";">>, <<"if", "true", "then", "return", "'a'", ";">>,
   <<"if", "true", "then", "return", ";">>}

\* Bodies of up to two return statements, as sequences of statements.
ReturnBodies ==
  {<<>>} \cup {<<s>> : s \in ReturnStatements}
    \cup {<<s, t>> : s, t \in ReturnStatements}

RECURSIVE WordsOfBody(_)
WordsOfBody(body) == IF body = <<>> THEN <<>> ELSE Head(body) \o WordsOfBody(Tail(body))

\* The expression of a return statement, "" for a bare return, and the
\* declared type an expression has.
ReturnedWord(statement) ==
  IF statement[Len(statement) - 1] = "return" THEN "" ELSE statement[Len(statement) - 1]
TypeOfWord(word) ==
  CASE word = "1" -> "integer" [] word = "'a'" -> "string" [] word = "true" -> "boolean"
    [] OTHER -> "none"

\* The step closes the body of these words after this header.
Closing(n, header, body) ==
  /\ Reducing(n)
  /\ InputStartsWith(header \o <<"begin">> \o WordsOfBody(body) \o <<"end", ";">>)

\* C29: a function body passes without error only when every return in it
\* has an expression of the declared type; a procedure or main program
\* body passes without error exactly when all its returns are bare.
C29_Returns ==
  [][\A body \in ReturnBodies :
       /\ \A t \in {"integer", "boolean", "string"} :
            (Closing(13, <<"function", "F", ":", t, ";">>, body)
               /\ semanticActions'.errors = <<>>) =>
              \A i \in DOMAIN body : TypeOfWord(ReturnedWord(body[i])) = t
       /\ (Closing(11, <<"procedure", "Q", ";">>, body) \/ Closing(7, <<"program", "P", ";">>, body)) =>
            (semanticActions'.errors = <<>>
               <=> \A i \in DOMAIN body : ReturnedWord(body[i]) = "")]_vars

\* What the actions do: a bare return counts as no return at all, so a
\* function body passes exactly when it has a return with an expression and
\* all such returns have the declared type.
C29_Observed ==
  [][\A body \in ReturnBodies :
       /\ \A t \in {"integer", "boolean", "string"} :
            Closing(13, <<"function", "F", ":", t, ";">>, body) =>
              (semanticActions'.errors = <<>>
                 <=> {TypeOfWord(ReturnedWord(body[i])) : i \in DOMAIN body} \ {"none"} = {t})
       /\ (Closing(11, <<"procedure", "Q", ";">>, body) \/ Closing(7, <<"program", "P", ";">>, body)) =>
            (semanticActions'.errors = <<>>
               <=> \A i \in DOMAIN body : ReturnedWord(body[i]) = "")]_vars

\* The words of the main program with variables and this body, up to the
\* end of the body.
MainWithWords(body) ==
  <<"program", "P", ";", "var", "x", ":", "integer", ";", "b", ":", "boolean", ";",
    "s", ":", "string", ";", "begin">> \o body

\* The rules that combine the returns of two components, with the places
\* of the two components: the statement sequence, if/else, the case and
\* its arms.
Combined == {<<27, 3, 1>>, <<33, 7, 3>>, <<41, 7, 5>>, <<43, 9, 3>>}

\* A return type that comes from a return with a typed expression.
Informative(ret) == ret \in {<<"integer">>, <<"string">>, <<"logical">>}

\* The two components of the reduction carry different informative returns.
ReturnsDiffer(c) ==
  /\ Reducing(c[1])
  /\ Informative(Operand(c[2]).ret) /\ Informative(Operand(c[3]).ret)
  /\ Operand(c[2]).ret # Operand(c[3]).ret

Later(p, q) == IF p > q THEN p ELSE q
Earlier(p, q) == IF p < q THEN p ELSE q

\* Statements whose two components return an integer and a string, with
\* the number of words before the second return.
DifferentReturns ==
  {<<<<"return", "1", ";", "return", "'a'", ";">>, 3>>,
   <<<<"if", "true", "then", "begin", "return", "1", ";", "end", ";",
       "else", "begin", "return", "'a'", ";", "end", ";">>, 11>>,
   <<<<"case", "x", "of", "1", ":", "begin", "return", "1", ";", "end", ";",
       "2", ":", "begin", "return", "'a'", ";", "end", ";", "end", ";">>, 14>>,
   <<<<"case", "x", "of", "1", ":", "begin", "return", "1", ";", "end", ";",
       "otherwise", ":", "begin", "return", "'a'", ";", "end", ";", "end", ";">>, 14>>}

\* C30: combining two components with different informative returns adds
\* exactly one error, at the later of the two return sites, which is the
\* offset of the second return in the text.
C30_LaterSite ==
  [][\A c \in Combined :
       ReturnsDiffer(c) =>
         /\ Len(NewErrors) = 1
         /\ NewErrors[1].position
              = Later(Operand(c[2]).retPosition, Operand(c[3]).retPosition)
         /\ \A d \in DifferentReturns :
              InputStartsWith(MainWithWords(d[1])) =>
                NewErrors[1].position = Len(TextOf(MainWithVars \o Lexemes(SubSeq(d[1], 1, d[2]))))]_vars

\* What the actions do: acc27 reports at the later site, acc33, acc41 and
\* acc43 at the earlier one.
C30_Observed ==
  [][\A c \in Combined :
       ReturnsDiffer(c) =>
         /\ Len(NewErrors) = 1
         /\ NewErrors[1].position
              = IF c[1] = 27
                THEN Later(Operand(c[2]).retPosition, Operand(c[3]).retPosition)
                ELSE Earlier(Operand(c[2]).retPosition, Operand(c[3]).retPosition)
         /\ Operand(c[2]).retPosition # Operand(c[3]).retPosition]_vars

\* The translation units analysed: up to MaxUnits different units among two
\* programs, a procedure and a function, in any order.
UnitWords(name) ==
  CASE name = "P" -> <<"program", "P", ";", "begin", "end", ";">>
    [] name = "X" -> <<"program", "X", ";", "begin", "end", ";">>
    [] name = "Q" -> <<"procedure", "Q", ";", "begin", "end", ";">>
    [] OTHER -> <<"function", "F", ":", "integer", ";", "begin", "return", "1", ";",
                  "end", ";">>

TranslationUnits ==
  {s \in UNION {[1..n -> {"P", "X", "Q", "F"}] : n \in 0..MaxUnits} :
     \A i, j \in DOMAIN s : s[i] = s[j] => i = j}

RECURSIVE WordsOfUnits(_)
WordsOfUnits(names) ==
  IF names = <<>> THEN <<>> ELSE UnitWords(Head(names)) \o WordsOfUnits(Tail(names))

Programs(names) == {i \in DOMAIN names : names[i] \in {"P", "X"}}

\* C31: the top-level reduction adds exactly one error when the
\* translation unit has no program or more than one, and none when it has
\* exactly one, wherever the procedures and functions stand.
C31_OneProgram ==
  [][\A names \in TranslationUnits :
       (Reducing(1) /\ lexer.input = TextOf(Lexemes(WordsOfUnits(names)))) =>
         /\ Cardinality(Programs(names)) = 1 => NewErrors = <<>>
         /\ Cardinality(Programs(names)) # 1 => Len(NewErrors) = 1]_vars

\* A translation unit of two programs has been reduced with its one error.
C31_Witness ==
  /\ parser.pc = "done"
  /\ \E names \in TranslationUnits :
       /\ Cardinality(Programs(names)) = 2
       /\ lexer.input = TextOf(Lexemes(WordsOfUnits(names)))
  /\ Len(semanticActions.errors) = 1
  /\ semanticActions.errors[1].message = "Only one program declaration can exist"

\* The entries of a list of errors stand in the order of their positions.
InSourceOrder(errors) ==
  \A i, j \in DOMAIN errors : i < j => errors[i].position <= errors[j].position

\* C32: in each list of errors, lexical, syntactic and semantic, an entry
\* appended earlier has a position less than or equal to that of an entry
\* appended later.
C32_SourceOrder ==
  /\ InSourceOrder(lexer.errors)
  /\ InSourceOrder(parser.errors)
  /\ InSourceOrder(semanticActions.errors)

\* What holds: the lexical and the syntactic list are in source order; the
\* semantic list is not, because the actions that close a body or check a
\* call add their error after the errors of what they enclose.
C32_Observed ==
  /\ InSourceOrder(lexer.errors)
  /\ InSourceOrder(parser.errors)

\* The type word of the variables and literals of the analysed assignments.
TypeWordOf(word) ==
  CASE word \in {"x", "1"} -> "integer"
    [] word \in {"b", "true"} -> "logical"
    [] OTHER -> "string"

NotCompatibleMessage(idType, eType) ==
  CASE idType = "integer" /\ eType = "logical" -> "integer is not compatible with logical"
    [] idType = "integer" /\ eType = "string" -> "integer is not compatible with string"
    [] idType = "logical" /\ eType = "integer" -> "logical is not compatible with integer"
    [] idType = "logical" /\ eType = "string" -> "logical is not compatible with string"
    [] idType = "string" /\ eType = "integer" -> "string is not compatible with integer"
    [] idType = "string" /\ eType = "logical" -> "string is not compatible with logical"
    [] OTHER -> "none"

\* C33: an assignment to a variable is type_ok, without error, when the
\* declared type of the variable is the type of the expression, and
\* otherwise type_error with the one error "<idType> is not compatible
\* with <eType>"; an assignment to a function or procedure name is
\* type_error.
C33_Assignment ==
  [][Reducing(51) =>
       /\ \A id \in {"x", "b", "s"}, e \in {"1", "true", "'a'", "x", "b", "s"} :
            BodyRead(<<id, ":=", e, ";">>, "end") =>
              IF TypeWordOf(id) = TypeWordOf(e)
              THEN Reduced.type = <<"type_ok">> /\ NewErrors = <<>>
              ELSE /\ Reduced.type = <<"type_error">>
                   /\ Len(NewErrors) = 1
                   /\ NewErrors[1].message = NotCompatibleMessage(TypeWordOf(id), TypeWordOf(e))
       /\ (Operand(7).symbol # NoSymbol
             /\ heap[Operand(7).symbol].kind \in {"FUNCTION", "PROCEDURE"}) =>
            /\ Reduced.type = <<"type_error">>
            /\ HasTypeError(3) \/ NewErrors # <<>>]_vars

\* The assignment b := 1 has been reduced with its error.
C33_Witness ==
  /\ BodyRead(<<"b", ":=", "1", ";">>, "end")
  /\ \E i \in DOMAIN semanticActions.errors :
       semanticActions.errors[i].message = "logical is not compatible with integer"

\* The callee of the call being reduced, with the callee at place i.
Callee(i) == heap[Operand(i).symbol]
IsCall(n, i) ==
  /\ Reducing(n)
  /\ Operand(i).symbol # NoSymbol
  /\ Callee(i).kind \in {"FUNCTION", "PROCEDURE"}

\* The types of the arguments of the list at place i, none for an absent list.
ArgumentTypes(i) ==
  IF OrZero(Operand(i).length) = 0 THEN <<>> ELSE Operand(i).type

ParameterTypeWord(param) ==
  CASE param.dataType = "INTEGER" -> "integer"
    [] param.dataType = "BOOLEAN" -> "logical"
    [] OTHER -> "string"

\* The arguments at place j fit the parameters of the callee at place i:
\* as many, and each of the type of its parameter.
ArgumentsFit(i, j) ==
  /\ Len(ArgumentTypes(j)) = Len(Callee(i).parameters)
  /\ \A k \in DOMAIN Callee(i).parameters :
       ArgumentTypes(j)[k] = ParameterTypeWord(Callee(i).parameters[k])

\* The same, but an argument typed type_error fits any parameter.
ArgumentsFitOrError(i, j) ==
  /\ Len(ArgumentTypes(j)) = Len(Callee(i).parameters)
  /\ \A k \in DOMAIN Callee(i).parameters :
       ArgumentTypes(j)[k] \in {ParameterTypeWord(Callee(i).parameters[k]), "type_error"}

\* C34: a call statement or a function call in an expression whose
\* arguments fit the parameters adds no error and is not type_error; one
\* whose arguments do not fit adds an error and is type_error; a procedure
\* in an expression is type_error.
C34_Calls ==
  [][/\ IsCall(52, 5) =>
          IF ArgumentsFit(5, 3)
          THEN Reduced.type = <<"type_ok">> /\ NewErrors = <<>>
          ELSE Reduced.type = <<"type_error">> /\ NewErrors # <<>>
     /\ IsCall(94, 3) =>
          IF Callee(3).kind = "PROCEDURE"
          THEN Reduced.type = <<"type_error">>
          ELSE IF ArgumentsFit(3, 1)
          THEN Reduced.type = <<"integer">> /\ NewErrors = <<>>
          ELSE Reduced.type = <<"type_error">> /\ NewErrors # <<>>]_vars

\* What acc52 and acc94 do: as C34 states, but a call statement whose
\* arguments fit apart from arguments typed type_error is type_ok without
\* error.
C34_Observed ==
  [][/\ IsCall(52, 5) =>
          IF ArgumentsFitOrError(5, 3)
          THEN Reduced.type = <<"type_ok">> /\ NewErrors = <<>>
          ELSE Reduced.type = <<"type_error">> /\ NewErrors # <<>>
     /\ IsCall(94, 3) =>
          IF Callee(3).kind = "PROCEDURE"
          THEN Reduced.type = <<"type_error">>
          ELSE IF ArgumentsFit(3, 1)
          THEN Reduced.type = <<"integer">> /\ NewErrors = <<>>
          ELSE Reduced.type = <<"type_error">> /\ NewErrors # <<>>]_vars

\* The type matrix of the binary operators: the type of the result of the
\* operator of rule n on operands of the types l and r.
TypeMatrix(n, l, r) ==
  CASE n \in {65, 66, 68} ->
         IF l = "logical" /\ r = "logical" THEN "logical" ELSE "type_error"
    [] n \in 70..75 ->
         IF l = "integer" /\ r = "integer" THEN "logical" ELSE "type_error"
    [] n = 77 ->
         IF l = r /\ l \in {"integer", "string"} THEN l ELSE "type_error"
    [] OTHER ->
         IF l = "integer" /\ r = "integer" THEN "integer" ELSE "type_error"

BinaryRules == {65, 66, 68} \cup (70..75) \cup {77, 78, 80, 81, 82, 84}

\* C35: a binary operator on operands of the types integer, logical and
\* string gives the type of the type matrix, without error when that is a
\* type and with exactly one error when it is type_error.
C35_TypeMatrix ==
  [][\A n \in BinaryRules :
       \A l, r \in {"integer", "logical", "string"} :
         (Reducing(n) /\ Operand(5).type = <<l>> /\ Operand(1).type = <<r>>) =>
           /\ Reduced.type = <<TypeMatrix(n, l, r)>>
           /\ Len(NewErrors) = (IF TypeMatrix(n, l, r) = "type_error" THEN 1 ELSE 0)]_vars

\* A string compared with an integer has been reported, once.
C35_Witness ==
  /\ BodyRead(<<"write", "(", "'a'", "<", "1", ")", ";">>, "end")
  /\ Len(semanticActions.errors) = 1
  /\ semanticActions.errors[1].message = "Incompatible type: left operand"

\* The parser is between the begin and the end of the body of a program,
\* procedure or function: its stack holds M2 and then begin, and the end of
\* that body is not the last symbol shifted.
InBody(stateStack) ==
  \E k \in DOMAIN stateStack :
    /\ k % 2 = 0
    /\ k + 2 <= Len(stateStack)
    /\ stateStack[k] = nonTerminalNameToId["M2"]
    /\ stateStack[k + 2] = getTokenId("BEGIN")
    /\ ~(k + 7 = Len(stateStack) /\ stateStack[k + 6] = getTokenId("END"))

DeclarationZoneActions == {2, 7, 10, 11, 13}

\* C36: the lexer's declaration mode equals that of the semantic actions in
\* every state and changes in reductions only: the first reduction of an
\* analysis is that of rule 2 and turns it on, the reduction of rule 10,
\* with begin as the next token, turns it off, the reductions of a program,
\* procedure or function turn it on, and an identifier lexed inside a body
\* is lexed with the mode off.
C36_DeclarationZone ==
  /\ [](lexer.declarationZone = semanticActions.declarationZone)
  /\ [][/\ lexer'.declarationZone # lexer.declarationZone =>
             \E n \in DeclarationZoneActions : Reducing(n)
        /\ (Len(parser.stateStack) = 1 /\ \E n \in DOMAIN productions : Reducing(n)) =>
             Reducing(2)
        /\ Reducing(2) => lexer'.declarationZone
        /\ Reducing(10) => parser.token.type = "BEGIN" /\ ~lexer'.declarationZone
        /\ \A n \in {7, 11, 13} : Reducing(n) => lexer'.declarationZone
        /\ (LexedIdentifier /\ InBody(parser'.stateStack)) => ~lexer.declarationZone]_vars

\* A procedure has been reduced and the name of the program after it is
\* being declared.
C36_Witness ==
  /\ InputEndsWith(<<"procedure", "Q", ";", "begin", "end", ";", "program", "P", ";">>)
  /\ lexer.declarationZone
  /\ semanticActions.declarationZone
  /\ lexer.lastToken.type = "SEMICOLON"

\* The places of the symbols of the right-hand side of rule n on the
\* semantic stack, the first symbol at the greatest place.
RhsPlaces(n) == {2 * i - 1 : i \in 1..productions[n].rhsLength}
FirstOfRhs(n) == Operand(2 * productions[n].rhsLength - 1)
\* Some symbol of the right-hand side comes from a token.
BuiltFromToken(n) == \E i \in RhsPlaces(n) : Operand(i).position # NoNum
\* The leftmost symbol of the right-hand side that has a position.
FirstPositioned(n) ==
  Operand(CHOOSE i \in RhsPlaces(n) :
            /\ Operand(i).position # NoNum
            /\ \A j \in RhsPlaces(n) : Operand(j).position # NoNum => j <= i)
\* What the semantic action of rule n returns on the stack as it is.
ActionResult(n) ==
  executeAction(n, World(symbolTable, heap, lexer, semanticActions), parser.semanticStack).res

\* C37: a reduction by a rule with a right-hand side that holds a token
\* gives the reduced symbol, where the action set none, the position, line
\* and column of the first symbol of the right-hand side and a length
\* greater than zero.
C37_Span ==
  [][\A n \in 1..Len(rules) :
       (Reducing(n) /\ productions[n].rhsLength > 0 /\ BuiltFromToken(n)) =>
         /\ Falsy(ActionResult(n).position) =>
              /\ Reduced.position = FirstOfRhs(n).position
              /\ Reduced.line = FirstOfRhs(n).line
              /\ Reduced.column = FirstOfRhs(n).column
         /\ Falsy(ActionResult(n).llength) =>
              Reduced.llength # NoNum /\ Reduced.llength > 0]_vars

\* What the parser does: the reduced symbol gets the position, line and
\* column of the leftmost symbol of the right-hand side that has a position,
\* and no length, since no symbol below it has one.
C37_Observed ==
  [][\A n \in 1..Len(rules) :
       (Reducing(n) /\ productions[n].rhsLength > 0 /\ BuiltFromToken(n)) =>
         /\ Falsy(ActionResult(n).position) =>
              /\ Reduced.position = FirstPositioned(n).position
              /\ Reduced.line = OrZero(FirstPositioned(n).line)
              /\ Reduced.column = OrZero(FirstPositioned(n).column)
         /\ Reduced.llength = ActionResult(n).llength
         /\ Reduced.llength = NoNum
         /\ Reduced.fullLength = NoNum]_vars

\* The same with a right-hand side whose first symbol has a position.
C37_FirstSymbol ==
  [][\A n \in 1..Len(rules) :
       (/\ Reducing(n) /\ productions[n].rhsLength > 0 /\ FirstOfRhs(n).position # NoNum
        /\ Falsy(ActionResult(n).position)) =>
           /\ Reduced.position = FirstOfRhs(n).position
           /\ Reduced.line = FirstOfRhs(n).line
           /\ Reduced.column = FirstOfRhs(n).column]_vars

\* C38: an analysis records at most one lexical error, and when it has
\* recorded one it has returned nothing and recorded no syntax error; a step
\* that records a lexical error is the last step of the analysis.
C38_LexicalErrorEnds ==
  /\ [](/\ Len(lexer.errors) <= 1
        /\ lexer.errors # <<>> =>
             /\ parser.pc = "done"
             /\ parser.result = "null"
             /\ parser.errors = <<>>
             /\ lexer.lastToken = NullToken)
  /\ [][(lexer.lastToken = NullToken /\ parser.pc # "start") =>
          UNCHANGED <<symbolTable, heap, lexer, parser, semanticActions>>]_vars

\* The lexer failed on a token after the parser had shifted others.
C38_Witness ==
  /\ Len(lexer.errors) = 1
  /\ parser.pc = "done"
  /\ Len(parser.stateStack) > 3
  /\ parser.errors = <<>>

\* C39: a call of getNextToken made before the end of the input moves the
\* lexer forward by at least one character.
C39_Progress ==
  [][lexer.currentCharCode # -1 => lexer'.position > lexer.position]_vars

\* What the lexer does: it moves forward unless the current character is a
\* closing brace, on which it records 'Illegal comment close' and stays.
C39_Observed ==
  [][/\ lexer.currentCharCode \notin {-1, 125} => lexer'.position > lexer.position
     /\ lexer.currentCharCode = 125 =>
          /\ lexer'.position = lexer.position
          /\ lexer'.currentCharCode = 125
          /\ Len(lexer'.errors) = Len(lexer.errors) + 1
          /\ lexer'.errors[Len(lexer'.errors)].message = "Illegal comment close"
          /\ call'.token = NullToken]_vars

\* The transition matrix has an entry for this state and character code.
HasTransition(state, charCode) ==
  /\ state + 1 \in DOMAIN transitionMatrix
  /\ getColumnIndex(state, charCode) + 1 \in DOMAIN transitionMatrix[state + 1]
  /\ transitionMatrix[state + 1][getColumnIndex(state, charCode) + 1][1] \in (0..12) \cup {888}

\* From this state on this character the automaton, within n transitions,
\* reads the character or reaches the terminal state.
RECURSIVE Settles(_, _, _)
Settles(state, charCode, n) ==
  LET transition == transitionMatrix[state + 1][getColumnIndex(state, charCode) + 1]
  IN \/ transition[1] = 888
     \/ transition[2] # "None"
     \/ n > 0 /\ Settles(transition[1], charCode, n - 1)

\* C40: the matrix has an entry for every state on the character the lexer
\* is at, the end of the input included, no state goes on for ever without
\* reading it, and the lexer never records 'No transition' nor passes the
\* end of its input.
C40_Total ==
  /\ \A state \in 0..12 :
       /\ HasTransition(state, lexer.currentCharCode)
       /\ Settles(state, lexer.currentCharCode, 13)
  /\ \A i \in DOMAIN lexer.errors :
       lexer.errors[i].message # "Internal error: No transition"
  /\ lexer.position <= Len(lexer.input)

\* The lexer has returned on a character that is no character of the
\* language.
C40_Witness ==
  /\ lexer.input = <<MaxCharCode>>
  /\ lexer.currentCharCode = -1
  /\ Len(lexer.errors) = 1
  /\ lexer.errors[1].message = "Unexpected character"

====
